---------------------------- MODULE Spec2Model ----------------------------
(***************************************************************************)
(* Post negotiation ledger of claim_sales_bot.py: claims, waitlists,       *)
(* offers, counter-offers, auctions and the sheet mirror.                  *)
(*                                                                         *)
(* Scheduling.  main() builds the Application without concurrent_updates, *)
(* so the update handlers run one after the other: a handler is split at   *)
(* an await only where a job of the job queue (end_auction) can run in     *)
(* between.  Coroutines started with asyncio.create_task are queued in     *)
(* `tasks` and run, in creation order, when the handler that created them  *)
(* has yielded.  SpecRace drops the one-handler-at-a-time discipline for   *)
(* the claim handlers and interleaves them at every await.                 *)
(*                                                                         *)
(* Python dicts are functions whose DOMAIN is the set of keys present.     *)
(* Prices are whole numbers.  A post's text is represented by what the     *)
(* handlers' regular expressions extract from it.  The payment-reminder    *)
(* jobs and the shipping conversation are not part of the modelled state.  *)
(***************************************************************************)
EXTENDS Integers, Sequences, FiniteSets, TLC

VARIABLES
    posts,            \* message id -> what the regexes read in the post's text
    service,          \* the sheet service: "up", "down" (get_sheets_service
                      \* yields None, every call raises) or "flaky"
    ingested,         \* posts handle_new_post has processed
    claimed_posts,    \* claimed_posts
    waitlists,        \* waitlists
    offer_posts,      \* offer_posts
    multiple_claims,  \* multiple_claims
    user_claims,      \* user_claims: user -> [items, total]
    auction_posts,    \* auction_posts
    sheets_tracking,  \* sheets_tracking
    sheet,            \* the rows of the external sheet: row -> [price, available, sold]
    tasks,            \* coroutines started with asyncio.create_task, oldest first
    jobs,             \* job queue: set of [name, post, at]
    now,              \* datetime.now(), in minutes
    cur,              \* the handler or job suspended at an await, with its locals
    attempts,         \* claim handlers dispatched concurrently: user -> position
                      \* and outcome of the user's claim
    ending,           \* end_auction jobs suspended at their awaits: post -> the
                      \* highest bidder and bid the job read before it awaited
    announced,        \* what end_auction last announced: post -> [bidder, bid]
    awaiting_reset_confirmation,
                      \* the admin's context.user_data['awaiting_reset_confirmation']
    last              \* the outcome (reply) of the last handler that ran

vars == <<posts, awaiting_reset_confirmation, service, attempts, ending, ingested, claimed_posts, waitlists, offer_posts, multiple_claims,
          user_claims, auction_posts, sheets_tracking, sheet, tasks, jobs, now,
          cur, announced, last>>

----------------------------------------------------------------------------
(* Bounds of the model *)

\* offers, counter-offers and bids are drawn from 1..MaxAmount
MaxAmount == 2
\* a user account holds at most MaxItems records: sales stop being taken beyond it
MaxItems == 1
\* the clock stops at MaxTime minutes
MaxTime == 7

Users == {"A", "B"}
\* the users who send "claim" when claim handlers are dispatched concurrently
Claimants == Users \cup {"C"}
PostId == "P"
Amounts == 1..MaxAmount
\* slot numbers users type after claim / unclaim / offer / take
MaxSlot == 2
SlotNumbers == 0..MaxSlot

----------------------------------------------------------------------------
(* Dictionaries *)

EmptyDict == [k \in {} |-> 0]
Put(d, k, v) == [x \in (DOMAIN d) \cup {k} |-> IF x = k THEN v ELSE d[x]]
Del(d, k) == [x \in (DOMAIN d) \ {k} |-> d[x]]
Has(d, k) == k \in DOMAIN d

\* max(d.values())
MaxValue(d) == CHOOSE v \in {d[k] : k \in DOMAIN d} : \A k \in DOMAIN d : d[k] <= v
\* the keys max(d, key=d.get) can return.  Python returns the first key, in
\* insertion order, that holds the maximum; the insertion order is not kept
\* here, so any key holding the maximum may be the one.
ArgMax(d) == {k \in DOMAIN d : d[k] = MaxValue(d)}

InSeq(x, s) == \E i \in 1..Len(s) : s[i] = x
----------------------------------------------------------------------------
(* Posts *)

\* qty = 0: the text holds no "qty:" / "quantity:" number
ClaimPosts == {[type |-> "claim", price |-> MaxAmount, qty |-> q, anti_snipe |-> FALSE, ends |-> 0] :
                 q \in {0, 2}}
\* the multi post is priced above every amount users type, so that an offer
\* can be raised and lowered without meeting the list price
MultiPosts == {[type |-> "multi", price |-> MaxAmount + 1, qty |-> 1, anti_snipe |-> FALSE, ends |-> 0]}

\* quantity of a claim post: 1 unless the text says qty
Quantity(p) == IF posts[p].qty = 0 THEN 1 ELSE posts[p].qty
\* total_quantity of a multi post: 10 unless the text says qty
DefaultMultiQuantity == 10
TotalQuantity(p) == IF posts[p].qty = 0 THEN DefaultMultiQuantity ELSE posts[p].qty

\* notified: the user the handler sent an outbid notice to, "-" when it sent none
NoEvent ==
    [op |-> "none", user |-> "-", slot |-> 0, result |-> "none", price |-> 0, notified |-> "-"]
\* the outcomes that change the bot's state; any other reply leaves it as it was
Effective == {"sold", "claimed", "waitlisted", "recorded", "released", "transferred",
              "dropped", "unreleased"}
Event(op, u, n, r, pr) ==
    IF r \in Effective
    THEN [op |-> op, user |-> u, slot |-> n, result |-> r, price |-> pr, notified |-> "-"]
    ELSE NoEvent

Idle == [pc |-> "idle"]
NoAttempt == [pc |-> "none", slot |-> 0, result |-> "none"]

----------------------------------------------------------------------------
(* User accounts *)

NewAccount == [items |-> << >>, total |-> 0]
Account(uc, u) == IF Has(uc, u) THEN uc[u] ELSE NewAccount
\* a variant that appends the record and leaves the total as it was
AppendOnly(uc, u, item) ==
    Put(uc, u, [items |-> Append(Account(uc, u).items, item),
                total |-> Account(uc, u).total])
\* user_data["items"].append(item); user_data["total"] += price
AddItem(uc, u, item) ==
    Put(uc, u, [items |-> Append(Account(uc, u).items, item),
                total |-> Account(uc, u).total + item.price])
Item(p, price, n, multi) ==
    [message_id |-> p, price |-> price, claim_number |-> n, is_multiple_claim |-> multi]
HasRoom(u) == Len(Account(user_claims, u).items) < MaxItems

----------------------------------------------------------------------------
(* Sheet mirror *)

SoldTask(p, change) == [fn |-> "update_sold_quantity", post |-> p, arg |-> change]
\* a variant that reports a sale where a price is to be recorded
PriceAsSold(p, price) == [fn |-> "update_sold_quantity", post |-> p, arg |-> 1]
PriceTask(p, price) == [fn |-> "update_post_price", post |-> p, arg |-> price]


\* Outcomes of a call of the sheet store: every call succeeds, the first call
\* of the coroutine raises, or the second one does
StoreOutcomes ==
    CASE service = "up" -> {"ok"}
      [] service = "down" -> {"first_fails"}
      [] OTHER -> {"ok", "first_fails", "second_fails"}
\* whether the append of record_post_immediately succeeds
AppendOutcomes ==
    CASE service = "up" -> {TRUE}
      [] service = "down" -> {FALSE}
      [] OTHER -> BOOLEAN

\* record_post_immediately: the tracking entry is made before the row is
\* appended; row_number stays None (0) when the append raises
RecordTracking(st, p, row) ==
    IF Has(st, p) THEN (IF row = 0 THEN st ELSE Put(st, p, [st[p] EXCEPT !.row_number = row]))
    ELSE Put(st, p, [post_type |-> posts[p].type,
                     row_number |-> row,
                     available_quantity |->
                         IF posts[p].type = "auction" THEN 1
                         ELSE IF posts[p].qty # 0 THEN posts[p].qty
                         ELSE IF posts[p].type = "multi" THEN DefaultMultiQuantity ELSE 1,
                     sold_quantity |-> 0,
                     original_available_quantity |->
                         IF posts[p].type = "auction" THEN 1
                         ELSE IF posts[p].qty # 0 THEN posts[p].qty
                         ELSE IF posts[p].type = "multi" THEN DefaultMultiQuantity ELSE 1])
SheetRow(st, p) == [price |-> posts[p].price,
                    available |-> st[p].available_quantity,
                    sold |-> 0]

\* update_sold_quantity: the quantities it computes
OriginalAvailable(st, mc, p) ==
    IF st[p].post_type = "multi" /\ Has(mc, p) /\ Has(mc[p], "total_quantity")
    THEN mc[p].total_quantity
    ELSE st[p].original_available_quantity
NewSold(st, mc, p, change) ==
    LET orig == OriginalAvailable(st, mc, p)
        sold0 == st[p].sold_quantity + change
        avail0 == orig - sold0
        sold1 == IF sold0 < 0 THEN 0 ELSE sold0
        avail1 == IF avail0 < 0 THEN 0 ELSE avail0
    IN  IF sold1 + avail1 # orig
        THEN (IF sold1 < orig THEN sold1 ELSE orig)
        ELSE sold1
NewAvailable(st, mc, p, change) ==
    LET orig == OriginalAvailable(st, mc, p)
        sold0 == st[p].sold_quantity + change
        avail0 == orig - sold0
        sold1 == IF sold0 < 0 THEN 0 ELSE sold0
        avail1 == IF avail0 < 0 THEN 0 ELSE avail0
    IN  IF sold1 + avail1 # orig
        THEN orig - NewSold(st, mc, p, change)
        ELSE avail1

Tracked(p) == Has(sheets_tracking, p) /\ sheets_tracking[p].row_number # 0

\* update_sold_quantity(message_id, sold_change), run as a task
UpdateSoldQuantity(p, change, outcome) ==
    IF ~Tracked(p)
    THEN UNCHANGED <<sheets_tracking, sheet>>
    ELSE LET row == sheets_tracking[p].row_number
             ns == NewSold(sheets_tracking, multiple_claims, p, change)
             na == NewAvailable(sheets_tracking, multiple_claims, p, change)
         IN  /\ sheets_tracking' =
                    [sheets_tracking EXCEPT ![p] =
                        [@ EXCEPT !.original_available_quantity =
                                       OriginalAvailable(sheets_tracking, multiple_claims, p),
                                  !.sold_quantity = ns,
                                  !.available_quantity = na]]
             /\ sheet' = CASE outcome = "first_fails" -> sheet
                           [] outcome = "second_fails" -> [sheet EXCEPT ![row].sold = ns]
                           [] OTHER -> [sheet EXCEPT ![row].sold = ns, ![row].available = na]

\* update_post_price(message_id, new_price), run as a task
UpdatePostPrice(p, price, outcome) ==
    /\ UNCHANGED sheets_tracking
    /\ sheet' = IF Tracked(p) /\ outcome # "first_fails"
                THEN [sheet EXCEPT ![sheets_tracking[p].row_number].price = price]
                ELSE sheet

\* a variant that runs the task created last first
NewestFirst(ts) == [i \in 1..Len(ts) |-> ts[Len(ts) + 1 - i]]
\* asyncio.create_task: the event loop starts the tasks in the order of their
\* creation
TaskOrder(ts) == ts

\* a variant that keeps a task whose store call raised, to run it again
RetryFailed(ts, outcome) == IF outcome = "ok" THEN Tail(ts) ELSE ts
\* the coroutine catches what the store call raises, logs it and returns: the
\* task is done whatever the outcome
AfterTask(ts, outcome) == Tail(ts)

\* the event loop runs the oldest created task; neither coroutine awaits, so
\* each runs to its end in one step
RunTask ==
    /\ tasks # << >>
    /\ \E outcome \in StoreOutcomes :
          LET t == Head(TaskOrder(tasks))
          IN  /\ IF t.fn = "update_sold_quantity"
                 THEN UpdateSoldQuantity(t.post, t.arg, outcome)
                 ELSE /\ outcome # "second_fails"
                      /\ UpdatePostPrice(t.post, t.arg, outcome)
              /\ tasks' = AfterTask(TaskOrder(tasks), outcome)
    /\ UNCHANGED <<posts, awaiting_reset_confirmation, service, attempts, ending, ingested, claimed_posts, waitlists, offer_posts, multiple_claims,
                   user_claims, auction_posts, jobs, now, cur, announced, last>>

\* a handler starts when no handler is suspended and the tasks created by the
\* previous one have run
HandlerMayStart == cur = Idle /\ tasks = << >>

----------------------------------------------------------------------------
(* New posts *)

\* setup_multi_post
SetupMultiPost(mc, p) ==
    IF Has(mc, p) THEN mc
    ELSE Put(mc, p, [claims |-> EmptyDict, waitlist |-> EmptyDict, offers |-> EmptyDict,
                     counter_offers |-> EmptyDict, accepted_offers |-> EmptyDict])

\* setup_auction_post.  The post's text gives the displayed end time, or none
\* (ends = 0): bidding then lasts 24 hours.  The real end is one minute later
FirstExtension == 5
NextExtension == 1
SnipeWindow == 1
OutbidCooldown == 2
ReminderFirst == 5
ReminderInterval == 120
DayMinutes == 1440

\* the minutes at which one handler's successive datetime.now() calls can fall:
\* the minute it started in, or the next one
ClockReadings == {now, now + 1}
\* display_end_time: the parsed time or, without one, a second reading of the
\* clock plus 24 hours
DisplayEndTime(p, clock) == IF posts[p].ends = 0 THEN clock + DayMinutes ELSE posts[p].ends
\* end_time: the parsed time plus a minute or, without one, the first reading
\* of the clock plus 24 hours and a minute
EndTime(p) == IF posts[p].ends = 0 THEN now + DayMinutes + 1 ELSE posts[p].ends + 1
\* a variant that takes every end time for a coming one
NeverPast(p) == FALSE
\* "Check if the end time is in the past"
PastEnd(p) == EndTime(p) < now
\* a job of the job queue; run_once and run_repeating add a job whatever the
\* queue holds, so jobs of one name and time are told apart by a copy number
Job(name, p, at) == [name |-> name, post |-> p, at |-> at, copy |-> 0]
AddJob(js, j) ==
    LET used == {k.copy : k \in {k \in js : k.name = j.name /\ k.post = j.post /\ k.at = j.at}}
        free == {c \in 0..Cardinality(used) : c \notin used}
    IN  js \cup {[j EXCEPT !.copy = CHOOSE c \in free : \A d \in free : c <= d]}

SetupAuctionPost(ap, p, clock) ==
    IF PastEnd(p) THEN ap
    ELSE Put(ap, p, [bids |-> EmptyDict,
                     end_time |-> EndTime(p),
                     display_end_time |-> DisplayEndTime(p, clock),
                     extended |-> FALSE,
                     active |-> TRUE,
                     anti_snipe |-> posts[p].anti_snipe,
                     confirmed |-> "None",
                     last_outbid_notification |-> EmptyDict])

\* a variant that records a post whether or not it is tracked
AlwaysRecord(st, p) == TRUE
\* handle_new_post: "if message.message_id not in sheets_tracking"
ShouldRecord(st, p) == ~Has(st, p)

\* handle_new_post: record_post_immediately, then setup_auction_post /
\* setup_multi_post / setup_regular_post
NewPost(p) ==
    /\ HandlerMayStart
    /\ p \in DOMAIN posts
    /\ ingested' = ingested \cup {p}
    /\ \E appended \in AppendOutcomes :
          LET row == IF appended THEN Len(sheet) + 1 ELSE 0
              st1 == IF ShouldRecord(sheets_tracking, p)
                     THEN RecordTracking(sheets_tracking, p, row)
                     ELSE sheets_tracking
              \* setup_multi_post overwrites available_quantity with 10;
              \* setup_regular_post writes the quantity of the text over a
              \* different available_quantity (the same one when the post is new)
              st2 == IF posts[p].type = "multi"
                     THEN [st1 EXCEPT ![p].available_quantity = DefaultMultiQuantity]
                     ELSE IF posts[p].type = "claim"
                             /\ st1[p].available_quantity # Quantity(p)
                     THEN [st1 EXCEPT ![p].available_quantity = Quantity(p),
                                      ![p].original_available_quantity = Quantity(p)]
                     ELSE st1
          IN  /\ sheets_tracking' = st2
              /\ sheet' = IF appended /\ ShouldRecord(sheets_tracking, p)
                          THEN Append(sheet, SheetRow(st1, p)) ELSE sheet
    /\ multiple_claims' = IF posts[p].type = "multi"
                          THEN SetupMultiPost(multiple_claims, p) ELSE multiple_claims
    /\ IF posts[p].type = "auction"
       THEN \E clock \in ClockReadings :
               auction_posts' = SetupAuctionPost(auction_posts, p, clock)
       ELSE auction_posts' = auction_posts
    /\ jobs' = IF posts[p].type = "auction" /\ ~PastEnd(p)
               THEN AddJob(AddJob(jobs, Job("auction_reminder", p, now + ReminderFirst)),
                           Job("auction_end", p, EndTime(p)))
               ELSE jobs
    /\ last' = NoEvent
    /\ UNCHANGED <<posts, awaiting_reset_confirmation, service, attempts, ending, claimed_posts, waitlists, offer_posts, user_claims,
                   tasks, now, cur, announced>>

\* the channel post p arrives
HandleNewPost(p) == p \notin ingested /\ NewPost(p)


----------------------------------------------------------------------------
(* Claims on a claim post: handle_claim *)

Waitlist(wl, p) == IF Has(wl, p) THEN wl[p] ELSE << >>
\* a variant that appends whoever asks
AlwaysJoin(wl, p, u) == Put(wl, p, Append(Waitlist(wl, p), u))
\* current_waitlist = waitlists.get(id, []); append unless already in it
JoinWaitlist(wl, p, u) ==
    IF InSeq(u, Waitlist(wl, p)) THEN wl ELSE Put(wl, p, Append(Waitlist(wl, p), u))

\* a claim first drops the offers and counter-offers of a post that has offers
ClearOffersOnClaim(op, p) ==
    IF Has(op, p) /\ DOMAIN op[p].offers # {}
    THEN [op EXCEPT ![p] = [offers |-> EmptyDict, counter_offers |-> EmptyDict]]
    ELSE op

\* a variant that serves every claim
AlwaysSell(cp, p) == "sell"
\* whether the claim is served or waitlisted
ClaimDecision(cp, p) ==
    IF ~Has(cp, p) THEN "sell"
    ELSE IF Has(cp[p], "counter_offer_price")
         THEN (IF Has(cp[p], "quantity") /\ cp[p].quantity > 0 THEN "sell" ELSE "waitlist")
    ELSE IF Has(cp[p], "quantity")
         THEN (IF cp[p].quantity > 0 THEN "sell" ELSE "waitlist")
    ELSE "waitlist"

\* the price charged: the stored counter-offer price, else the post's price
ClaimPrice(cp, p) ==
    IF Has(cp, p) /\ Has(cp[p], "counter_offer_price")
    THEN cp[p].counter_offer_price
    ELSE posts[p].price

\* "Mark post as claimed"
MarkClaimed(cp, p, u) ==
    IF Quantity(p) > 1
    THEN (IF Has(cp, p) THEN [cp EXCEPT ![p].quantity = @ - 1]
          ELSE Put(cp, p, [user_id |-> u, quantity |-> Quantity(p) - 1]))
    ELSE Put(cp, p, [user_id |-> u])

HandleClaim(u, p) ==
    /\ HandlerMayStart
    /\ p \in ingested /\ posts[p].type = "claim"
    /\ offer_posts' = ClearOffersOnClaim(offer_posts, p)
    /\ IF ClaimDecision(claimed_posts, p) = "sell"
       THEN /\ HasRoom(u)
            /\ user_claims' = AddItem(user_claims, u,
                                      Item(p, ClaimPrice(claimed_posts, p), 0, FALSE))
            /\ claimed_posts' = MarkClaimed(claimed_posts, p, u)
            /\ tasks' = Append(tasks, SoldTask(p, 1))
            /\ last' = Event("claim", u, 0, "claimed", ClaimPrice(claimed_posts, p))
            /\ UNCHANGED waitlists
       ELSE /\ waitlists' = JoinWaitlist(waitlists, p, u)
            /\ last' = Event("claim", u, 0, "waitlisted", 0)
            /\ UNCHANGED <<user_claims, claimed_posts, tasks>>
    /\ UNCHANGED <<posts, awaiting_reset_confirmation, service, attempts, ending, ingested, multiple_claims, auction_posts, sheets_tracking,
                   sheet, jobs, now, cur, announced>>

----------------------------------------------------------------------------
(* Unclaim: handle_unclaim and what it dispatches to *)

RemoveAt(s, i) == SubSeq(s, 1, i - 1) \o SubSeq(s, i + 1, Len(s))
ItemsOf(u) == Account(user_claims, u).items
\* handle_most_recent_unclaim: the latest record of this post (records are
\* appended in time order)
MostRecentIndex(u, p) ==
    LET idx == {i \in 1..Len(ItemsOf(u)) : ItemsOf(u)[i].message_id = p}
    IN  IF idx = {} THEN 0 ELSE CHOOSE i \in idx : \A j \in idx : j <= i
\* handle_specific_unclaim: the first record of this post and claim number
SpecificIndex(u, p, n) ==
    LET idx == {i \in 1..Len(ItemsOf(u)) :
                  /\ ItemsOf(u)[i].message_id = p
                  /\ ItemsOf(u)[i].is_multiple_claim
                  /\ ItemsOf(u)[i].claim_number = n}
    IN  IF idx = {} THEN 0 ELSE CHOOSE i \in idx : \A j \in idx : i <= j

WithoutItem(uc, u, i) ==
    Put(uc, u, [items |-> RemoveAt(uc[u].items, i),
                total |-> uc[u].total - uc[u].items[i].price])

\* claimed_posts after an unclaim that found nobody waiting
ReleaseClaimed(cp, p) ==
    IF ~Has(cp, p) THEN cp
    ELSE IF Has(cp[p], "quantity") THEN [cp EXCEPT ![p].quantity = @ + 1]
    ELSE Del(cp, p)

\* claimed_posts after the head of the waitlist took the unit over
TransferClaimed(cp, p, next) ==
    IF Has(cp, p) THEN [cp EXCEPT ![p] = Put(@, "user_id", next)] ELSE cp

\* a variant that hands the unit over at the post's list price
ListPriceItem(p, item, n, multi) == Item(p, posts[p].price, n, multi)
\* the record the head of the waitlist receives: the price is item_price, the
\* price of the record that was removed
TransferredItem(p, item, n, multi) == Item(p, item.price, n, multi)

\* a variant that serves the latest arrival first
LastInLine(wl) == wl[Len(wl)]
\* current_waitlist.pop(0): the user who has waited longest is served
NextInLine(wl) == Head(wl)

\* handle_regular_unclaim(item_to_remove), the record being items[i] of u
HandleRegularUnclaim(u, p, i) ==
    LET item == ItemsOf(u)[i]
        wl == Waitlist(waitlists, p)
        uc1 == WithoutItem(user_claims, u, i)
    IN  IF wl # << >>
        THEN LET next == NextInLine(wl)
             IN  /\ Len(Account(uc1, next).items) < MaxItems
                 /\ waitlists' = Put(waitlists, p, Tail(wl))
                 /\ user_claims' = AddItem(uc1, next, TransferredItem(p, item, 0, FALSE))
                 /\ claimed_posts' = TransferClaimed(claimed_posts, p, next)
                 /\ last' = Event("unclaim", u, 0, "transferred", item.price)
                 /\ UNCHANGED <<tasks, multiple_claims>>
        ELSE /\ user_claims' = uc1
             /\ tasks' = Append(tasks, SoldTask(p, -1))
             /\ claimed_posts' = ReleaseClaimed(claimed_posts, p)
             /\ last' = Event("unclaim", u, 0, "released", item.price)
             /\ UNCHANGED <<waitlists, multiple_claims>>


\* multi_data.get(field, {})
Field(md, f) == IF Has(md, f) THEN md[f] ELSE EmptyDict
SlotWaitlist(md, n) == IF Has(md.waitlist, n) THEN md.waitlist[n] ELSE << >>

\* handle_multiple_unclaim(item_to_remove), the record being items[i] of u
HandleMultipleUnclaim(u, p, i) ==
    LET item == ItemsOf(u)[i]
        n == item.claim_number
        uc1 == WithoutItem(user_claims, u, i)
        md == multiple_claims[p]
    IN  IF Has(multiple_claims, p) /\ Has(md.claims, n) /\ md.claims[n] = u
        THEN IF SlotWaitlist(md, n) # << >>
             THEN LET next == NextInLine(SlotWaitlist(md, n))
                  IN  /\ Len(Account(uc1, next).items) < MaxItems
                      /\ user_claims' = AddItem(uc1, next, TransferredItem(p, item, n, TRUE))
                      /\ multiple_claims' =
                            [multiple_claims EXCEPT
                               ![p].waitlist = Put(@, n, Tail(SlotWaitlist(md, n))),
                               ![p].claims = Put(@, n, next)]
                      /\ last' = Event("unclaim", u, n, "transferred", item.price)
                      /\ UNCHANGED tasks
             ELSE /\ user_claims' = uc1
                  /\ multiple_claims' = [multiple_claims EXCEPT ![p].claims = Del(@, n)]
                  /\ tasks' = Append(tasks, SoldTask(p, -1))
                  /\ last' = Event("unclaim", u, n, "released", item.price)
        ELSE \* the record is dropped and nothing else happens
             /\ user_claims' = uc1
             /\ last' = Event("unclaim", u, n, "dropped", item.price)
             /\ UNCHANGED <<multiple_claims, tasks>>

\* handle_unclaim: "unclaim" (n = 0) or "unclaim n", as a reply to post p
HandleUnclaim(u, p, n) ==
    /\ HandlerMayStart
    /\ p \in ingested /\ posts[p].type \in {"claim", "multi"}
    /\ n # 0 => posts[p].type = "multi"
    /\ IF ItemsOf(u) = << >>
       THEN /\ last' = Event("unclaim", u, n, "no_items", 0)
            /\ UNCHANGED <<user_claims, claimed_posts, waitlists, multiple_claims, tasks>>
       ELSE IF n # 0
       THEN \* handle_specific_unclaim
            IF n < 1 \/ n > TotalQuantity(p)
            THEN /\ last' = Event("unclaim", u, n, "out_of_range", 0)
                 /\ UNCHANGED <<user_claims, claimed_posts, waitlists, multiple_claims, tasks>>
            ELSE IF SpecificIndex(u, p, n) = 0
            THEN /\ last' = Event("unclaim", u, n, "not_found", 0)
                 /\ UNCHANGED <<user_claims, claimed_posts, waitlists, multiple_claims, tasks>>
            ELSE /\ HandleMultipleUnclaim(u, p, SpecificIndex(u, p, n))
                 /\ UNCHANGED <<claimed_posts, waitlists>>
       ELSE \* handle_most_recent_unclaim
            IF MostRecentIndex(u, p) = 0
            THEN /\ last' = Event("unclaim", u, n, "not_found", 0)
                 /\ UNCHANGED <<user_claims, claimed_posts, waitlists, multiple_claims, tasks>>
            ELSE IF ItemsOf(u)[MostRecentIndex(u, p)].is_multiple_claim
            THEN /\ HandleMultipleUnclaim(u, p, MostRecentIndex(u, p))
                 /\ UNCHANGED <<claimed_posts, waitlists>>
            ELSE HandleRegularUnclaim(u, p, MostRecentIndex(u, p))
    /\ UNCHANGED <<posts, awaiting_reset_confirmation, service, attempts, ending, ingested, offer_posts, auction_posts, sheets_tracking, sheet,
                   jobs, now, cur, announced>>

----------------------------------------------------------------------------
(* Claims on a multi post: handle_multiple_claim *)

NewMultiData(p) ==
    [claims |-> EmptyDict, waitlist |-> EmptyDict, offers |-> EmptyDict,
     counter_offers |-> EmptyDict, accepted_offers |-> EmptyDict,
     total_quantity |-> TotalQuantity(p)]

JoinSlotWaitlist(md, n, u) ==
    IF InSeq(u, SlotWaitlist(md, n))
    THEN [md EXCEPT !.waitlist = Put(@, n, SlotWaitlist(md, n))]
    ELSE [md EXCEPT !.waitlist = Put(@, n, Append(SlotWaitlist(md, n), u))]

\* whether slot n is taken, for handle_multiple_claim
SlotTaken(md, n) == Has(Field(md, "accepted_offers"), n) \/ Has(md.claims, n)

HandleMultipleClaim(u, p, n) ==
    /\ HandlerMayStart
    /\ p \in ingested /\ posts[p].type = "multi"
    /\ IF n < 1 \/ n > TotalQuantity(p)
       THEN /\ last' = Event("claim", u, n, "out_of_range", 0)
            /\ UNCHANGED <<multiple_claims, user_claims, tasks>>
       ELSE LET mc1 == IF Has(multiple_claims, p) THEN multiple_claims
                       ELSE Put(multiple_claims, p, NewMultiData(p))
                md == mc1[p]
            IN  IF SlotTaken(md, n)
                THEN /\ multiple_claims' = [mc1 EXCEPT ![p] = JoinSlotWaitlist(md, n, u)]
                     /\ last' = Event("claim", u, n, "waitlisted", 0)
                     /\ UNCHANGED <<user_claims, tasks>>
                ELSE /\ HasRoom(u)
                     /\ multiple_claims' = [mc1 EXCEPT ![p].claims = Put(@, n, u)]
                     /\ user_claims' = AddItem(user_claims, u, Item(p, posts[p].price, n, TRUE))
                     /\ tasks' = Append(tasks, SoldTask(p, 1))
                     /\ last' = Event("claim", u, n, "claimed", posts[p].price)
    /\ UNCHANGED <<posts, awaiting_reset_confirmation, service, attempts, ending, ingested, claimed_posts, waitlists, offer_posts, auction_posts,
                   sheets_tracking, sheet, jobs, now, cur, announced>>


----------------------------------------------------------------------------
(* Offers on a claim post: handle_offer, handle_counter_offer *)

\* handle_offer's "already fully claimed" test
OfferBlocked(cp, p) ==
    /\ Has(cp, p)
    /\ IF Has(cp[p], "quantity") THEN cp[p].quantity <= 0 ELSE TRUE

\* the users handle_multiple_offer may send the outbid notice to: the holder of
\* the highest offer when the new offer is above it and comes from someone else
MultiOfferNotices(offers, u, amt) ==
    IF DOMAIN offers = {} \/ amt <= MaxValue(offers) THEN {"-"}
    ELSE {IF prev # u THEN prev ELSE "-" : prev \in ArgMax(offers)}
\* the users handle_offer may send the outbid notice to: the holder of the
\* highest offer when the new offer is above it
OfferNotices(offers, u, amt) ==
    IF DOMAIN offers = {} \/ amt <= MaxValue(offers) THEN {"-"}
    ELSE ArgMax(offers)

HandleOffer(u, p, amt) ==
    /\ HandlerMayStart
    /\ p \in ingested /\ posts[p].type = "claim"
    /\ IF OfferBlocked(claimed_posts, p)
       THEN /\ last' = Event("offer", u, 0, "rejected_claimed", amt)
            /\ UNCHANGED offer_posts
       ELSE LET op1 == IF Has(offer_posts, p) THEN offer_posts
                       ELSE Put(offer_posts, p, [offers |-> EmptyDict,
                                                 counter_offers |-> EmptyDict])
            IN  IF Has(op1[p].offers, u) /\ amt <= op1[p].offers[u]
                THEN /\ offer_posts' = op1
                     /\ last' = Event("offer", u, 0, "rejected_not_higher", amt)
                ELSE /\ offer_posts' = [op1 EXCEPT ![p].offers = Put(@, u, amt),
                                                   ![p].counter_offers = Del(@, u)]
                     /\ \E to \in OfferNotices(op1[p].offers, u, amt) :
                           last' = [Event("offer", u, 0, "recorded", amt)
                                       EXCEPT !.notified = to]
    /\ UNCHANGED <<posts, awaiting_reset_confirmation, service, attempts, ending, ingested, claimed_posts, waitlists, multiple_claims, user_claims,
                   auction_posts, sheets_tracking, sheet, tasks, jobs, now, cur, announced>>

\* a handler that would record every counter-offer
CounterNeverTooLow(offers, ou, amt) == FALSE
\* a counter-offer is refused unless it is above the offer it answers
CounterTooLow(offers, ou, amt) == amt <= offers[ou]

\* no test of the sender at all
AnySender(adm) == TRUE
\* is_admin_user or is_channel_message or is_forward_from_channel; adm: the
\* sending user, the sender chat or the chat forwarded from is in ADMIN_IDS
IsAdminSource(adm) == adm

\* handle_counter_offer's "already fully claimed" test
CounterBlocked(cp, p) == OfferBlocked(cp, p)

\* "co <amt>" as a reply to post p; adm: the sender is in ADMIN_IDS
HandleCounterOffer(adm, p, amt) ==
    /\ HandlerMayStart
    /\ p \in ingested /\ posts[p].type = "claim"
    /\ Has(offer_posts, p)
    /\ IF CounterBlocked(claimed_posts, p)
       THEN /\ last' = Event("counter", "-", 0, "rejected_claimed", amt)
            /\ UNCHANGED offer_posts
       ELSE IF ~IsAdminSource(adm)
       THEN /\ last' = Event("counter", "-", 0, "ignored", amt)
            /\ UNCHANGED offer_posts
       ELSE IF DOMAIN offer_posts[p].offers = {}
       THEN /\ last' = Event("counter", "-", 0, "no_offers", amt)
            /\ UNCHANGED offer_posts
       ELSE \E ou \in ArgMax(offer_posts[p].offers) :
               IF CounterTooLow(offer_posts[p].offers, ou, amt)
               THEN /\ last' = Event("counter", ou, 0, "rejected_not_higher", amt)
                    /\ UNCHANGED offer_posts
               ELSE /\ offer_posts' = [offer_posts EXCEPT ![p].counter_offers = Put(@, ou, amt)]
                    /\ last' = Event("counter", ou, 0, "recorded", amt)
    /\ UNCHANGED <<posts, awaiting_reset_confirmation, service, attempts, ending, ingested, claimed_posts, waitlists, multiple_claims, user_claims,
                   auction_posts, sheets_tracking, sheet, tasks, jobs, now, cur, announced>>

----------------------------------------------------------------------------
(* take: handle_take, handle_multiple_take *)

\* claimed_posts after a counter-offer on a claim post was taken; oq is the
\* quantity read from the post fetched with get_message, 1 when that call raises
TakeClaimed(cp, p, u, oq, amt) ==
    IF oq > 1
    THEN (IF Has(cp, p) /\ Has(cp[p], "quantity")
          THEN [cp EXCEPT ![p].quantity = @ - 1]
          ELSE Put(cp, p, [quantity |-> oq - 1, counter_offer_price |-> amt]))
    ELSE Put(cp, p, [user_id |-> u])

\* a sale that drops the offers and counter-offers of every slot
MultipleTakeAll(md, n, u) ==
    LET md1 == Put(md, "accepted_offers", Put(Field(md, "accepted_offers"), n, u))
        md2 == [md1 EXCEPT !.offers = EmptyDict]
    IN  IF Has(md2, "counter_offers") THEN [md2 EXCEPT !.counter_offers = EmptyDict] ELSE md2
\* handle_multiple_take
MultipleTake(md, n, u) ==
    LET md1 == Put(md, "accepted_offers", Put(Field(md, "accepted_offers"), n, u))
        md2 == [md1 EXCEPT !.offers = Del(@, n)]
    IN  IF Has(md2, "counter_offers") THEN [md2 EXCEPT !.counter_offers = Del(@, n)] ELSE md2

\* "take" (n = 0) or "take n" as a reply to post p
HandleTake(u, p, n) ==
    /\ HandlerMayStart
    /\ p \in ingested /\ posts[p].type \in {"claim", "multi"}
    /\ (posts[p].type = "claim") => n = 0
    /\ IF n # 0
       THEN \* a numbered take on a multi post
            /\ UNCHANGED <<claimed_posts, waitlists>>
            /\ IF /\ Has(multiple_claims, p)
                  /\ Has(Field(multiple_claims[p], "counter_offers"), n)
                  /\ Has(multiple_claims[p].counter_offers[n], u)
               THEN LET amt == multiple_claims[p].counter_offers[n][u]
                    IN  /\ HasRoom(u)
                        /\ user_claims' = AddItem(user_claims, u, Item(p, amt, n, TRUE))
                        /\ multiple_claims' =
                              [multiple_claims EXCEPT ![p] = MultipleTake(@, n, u)]
                        /\ tasks' = tasks \o <<SoldTask(p, 1), PriceTask(p, amt)>>
                        /\ last' = Event("take", u, n, "sold", amt)
               ELSE /\ last' = Event("take", u, n, "no_counter", 0)
                    /\ UNCHANGED <<user_claims, multiple_claims, tasks>>
       ELSE \* the first post of offer_posts holding a counter-offer for the user
            /\ UNCHANGED multiple_claims
            /\ IF \E q \in DOMAIN offer_posts : Has(offer_posts[q].counter_offers, u)
               THEN \E q \in {x \in DOMAIN offer_posts : Has(offer_posts[x].counter_offers, u)},
                       fetched \in BOOLEAN :
                      LET amt == offer_posts[q].counter_offers[u]
                          oq == IF fetched THEN Quantity(q) ELSE 1
                      IN  /\ HasRoom(u)
                          /\ user_claims' = AddItem(user_claims, u, Item(q, amt, 0, FALSE))
                          /\ claimed_posts' = TakeClaimed(claimed_posts, q, u, oq, amt)
                          /\ waitlists' = IF oq > 1 THEN waitlists ELSE Del(waitlists, q)
                          /\ tasks' = tasks \o <<SoldTask(q, 1), PriceTask(q, amt)>>
                          /\ last' = Event("take", u, 0, "sold", amt)
               ELSE /\ last' = Event("take", u, 0, "no_counter", 0)
                    /\ UNCHANGED <<user_claims, claimed_posts, waitlists, tasks>>
    /\ UNCHANGED <<posts, awaiting_reset_confirmation, service, attempts, ending, ingested, offer_posts, auction_posts, sheets_tracking, sheet,
                   jobs, now, cur, announced>>


----------------------------------------------------------------------------
(* Admin acceptance of an offer on a claim post: handle_offer_acceptance *)

\* claimed_posts after the admin accepted the offer of ou
AcceptClaimed(cp, p, ou, amt) ==
    IF Quantity(p) > 1
    THEN (IF Has(cp, p) /\ Has(cp[p], "quantity")
          THEN [cp EXCEPT ![p].quantity = @ - 1]
          ELSE Put(cp, p, [user_id |-> ou, quantity |-> Quantity(p) - 1,
                           offer_price |-> amt]))
    ELSE Put(cp, p, [user_id |-> ou])

\* "yours" as a reply to post p, which is in offer_posts
HandleOfferAcceptance(adm, p) ==
    /\ HandlerMayStart
    /\ p \in ingested /\ posts[p].type = "claim"
    /\ Has(offer_posts, p)
    /\ IF ~IsAdminSource(adm)
       THEN /\ last' = Event("accept", "-", 0, "ignored", 0)
            /\ UNCHANGED <<offer_posts, claimed_posts, user_claims, tasks>>
       ELSE IF DOMAIN offer_posts[p].offers = {}
       THEN /\ last' = Event("accept", "-", 0, "no_offers", 0)
            /\ UNCHANGED <<offer_posts, claimed_posts, user_claims, tasks>>
       ELSE \E ou \in ArgMax(offer_posts[p].offers) :
               LET amt == offer_posts[p].offers[ou]
               IN  /\ HasRoom(ou)
                   /\ claimed_posts' = AcceptClaimed(claimed_posts, p, ou, amt)
                   /\ user_claims' = AddItem(user_claims, ou, Item(p, amt, 0, FALSE))
                   /\ offer_posts' = [offer_posts EXCEPT ![p].offers = EmptyDict,
                                                         ![p].counter_offers = Del(@, ou)]
                   /\ tasks' = tasks \o <<SoldTask(p, 1), PriceTask(p, amt)>>
                   /\ last' = Event("accept", ou, 0, "sold", amt)
    /\ UNCHANGED <<posts, awaiting_reset_confirmation, service, attempts, ending, ingested, waitlists, multiple_claims, auction_posts,
                   sheets_tracking, sheet, jobs, now, cur, announced>>

----------------------------------------------------------------------------
(* Offers on a multi post *)

\* the entry handle_multiple_offer creates: no counter_offers, no accepted_offers
NewMultiDataOnOffer(p) ==
    [claims |-> EmptyDict, waitlist |-> EmptyDict, offers |-> EmptyDict,
     total_quantity |-> TotalQuantity(p)]
SlotOffers(md, n) == IF Has(md.offers, n) THEN md.offers[n] ELSE EmptyDict

\* "offer n at amt" as a reply to multi post p
HandleMultipleOffer(u, p, n, amt) ==
    /\ HandlerMayStart
    /\ p \in ingested /\ posts[p].type = "multi"
    /\ IF n < 1 \/ n > TotalQuantity(p)
       THEN /\ last' = Event("offer", u, n, "out_of_range", amt)
            /\ UNCHANGED multiple_claims
       ELSE IF amt = posts[p].price
       THEN /\ last' = Event("offer", u, n, "rejected_same_as_price", amt)
            /\ UNCHANGED multiple_claims
       ELSE LET mc1 == IF Has(multiple_claims, p) THEN multiple_claims
                       ELSE Put(multiple_claims, p, NewMultiDataOnOffer(p))
                \* the slot's offer table is created before the slot is looked at
                md == [mc1[p] EXCEPT !.offers = Put(@, n, SlotOffers(mc1[p], n))]
            IN  IF Has(md.claims, n)
                THEN /\ multiple_claims' = [mc1 EXCEPT ![p] = md]
                     /\ last' = Event("offer", u, n, "rejected_claimed", amt)
                ELSE IF Has(md.offers[n], u) /\ amt = md.offers[n][u]
                THEN /\ multiple_claims' = [mc1 EXCEPT ![p] = md]
                     /\ last' = Event("offer", u, n, "rejected_same_offer", amt)
                ELSE /\ multiple_claims' =
                           [mc1 EXCEPT ![p] = [md EXCEPT !.offers[n] = Put(@, u, amt)]]
                     /\ \E to \in MultiOfferNotices(md.offers[n], u, amt) :
                           last' = [Event("offer", u, n, "recorded", amt)
                                       EXCEPT !.notified = to]
    /\ UNCHANGED <<posts, awaiting_reset_confirmation, service, attempts, ending, ingested, claimed_posts, waitlists, offer_posts, user_claims,
                   auction_posts, sheets_tracking, sheet, tasks, jobs, now, cur, announced>>

\* multi_data.get("total_quantity", 10)
StoredTotalQuantity(md) ==
    IF Has(md, "total_quantity") THEN md.total_quantity ELSE DefaultMultiQuantity

\* "co n at amt" as a reply to multi post p.  multi_data["offers"][n] raises
\* KeyError when the slot never had an offer, and max() raises on an offer
\* table that is empty: the handler then ends with no change
HandleMultipleCounterOffer(adm, p, n, amt) ==
    /\ HandlerMayStart
    /\ p \in ingested /\ posts[p].type = "multi"
    /\ Has(multiple_claims, p)
    /\ LET md == multiple_claims[p]
       IN  IF ~IsAdminSource(adm)
           THEN /\ last' = Event("counter", "-", n, "ignored", amt)
                /\ UNCHANGED multiple_claims
           ELSE IF n < 1 \/ n > StoredTotalQuantity(md)
           THEN /\ last' = Event("counter", "-", n, "out_of_range", amt)
                /\ UNCHANGED multiple_claims
           ELSE IF ~Has(md.offers, n) \/ DOMAIN SlotOffers(md, n) = {}
           THEN /\ last' = Event("counter", "-", n, "raised", amt)
                /\ UNCHANGED multiple_claims
           ELSE \E ou \in ArgMax(md.offers[n]) :
                   IF CounterTooLow(md.offers[n], ou, amt)
                   THEN /\ last' = Event("counter", ou, n, "rejected_not_higher", amt)
                        /\ UNCHANGED multiple_claims
                   ELSE LET co == Field(md, "counter_offers")
                            con == IF Has(co, n) THEN co[n] ELSE EmptyDict
                        IN  /\ multiple_claims' =
                                  [multiple_claims EXCEPT ![p] =
                                      Put(md, "counter_offers", Put(co, n, Put(con, ou, amt)))]
                            /\ last' = Event("counter", ou, n, "recorded", amt)
    /\ UNCHANGED <<posts, awaiting_reset_confirmation, service, attempts, ending, ingested, claimed_posts, waitlists, offer_posts, user_claims,
                   auction_posts, sheets_tracking, sheet, tasks, jobs, now, cur, announced>>

\* "yours n" as a reply to multi post p
HandleMultipleOfferAcceptance(adm, p, n) ==
    /\ HandlerMayStart
    /\ p \in ingested /\ posts[p].type = "multi"
    /\ Has(multiple_claims, p)
    /\ LET md == multiple_claims[p]
       IN  IF ~IsAdminSource(adm)
           THEN /\ last' = Event("accept", "-", n, "ignored", 0)
                /\ UNCHANGED <<multiple_claims, user_claims, tasks>>
           ELSE IF n < 1 \/ n > StoredTotalQuantity(md)
           THEN /\ last' = Event("accept", "-", n, "out_of_range", 0)
                /\ UNCHANGED <<multiple_claims, user_claims, tasks>>
           ELSE IF SlotTaken(md, n)
           THEN /\ last' = Event("accept", "-", n, "rejected_claimed", 0)
                /\ UNCHANGED <<multiple_claims, user_claims, tasks>>
           ELSE IF DOMAIN SlotOffers(md, n) = {}
           THEN /\ last' = Event("accept", "-", n, "no_offers", 0)
                /\ UNCHANGED <<multiple_claims, user_claims, tasks>>
           ELSE \E ou \in ArgMax(md.offers[n]) :
                   LET amt == md.offers[n][ou]
                   IN  /\ HasRoom(ou)
                       /\ user_claims' = AddItem(user_claims, ou, Item(p, amt, n, TRUE))
                       /\ multiple_claims' =
                             [multiple_claims EXCEPT ![p] = MultipleTake(md, n, ou)]
                       /\ tasks' = tasks \o <<SoldTask(p, 1), PriceTask(p, amt)>>
                       /\ last' = Event("accept", ou, n, "sold", amt)
    /\ UNCHANGED <<posts, awaiting_reset_confirmation, service, attempts, ending, ingested, claimed_posts, waitlists, offer_posts, auction_posts,
                   sheets_tracking, sheet, jobs, now, cur, announced>>

----------------------------------------------------------------------------
(* The claim ledger: one claim or multi post in the channel *)

Admin == BOOLEAN

InitCommon ==
    /\ ingested = {}
    /\ awaiting_reset_confirmation = FALSE
    /\ claimed_posts = EmptyDict
    /\ waitlists = EmptyDict
    /\ offer_posts = EmptyDict
    /\ multiple_claims = EmptyDict
    /\ user_claims = EmptyDict
    /\ auction_posts = EmptyDict
    /\ sheets_tracking = EmptyDict
    /\ sheet = << >>
    /\ tasks = << >>
    /\ jobs = {}
    /\ now = 0
    /\ cur = Idle
    /\ attempts = [u \in Claimants |-> NoAttempt]
    /\ ending = EmptyDict
    /\ announced = EmptyDict
    /\ last = NoEvent

Init ==
    /\ \E d \in ClaimPosts \cup MultiPosts : posts = [p \in {PostId} |-> d]
    /\ service \in {"up", "down"}
    /\ InitCommon

Next ==
    \/ \E p \in DOMAIN posts : HandleNewPost(p)
    \/ RunTask
    \/ \E u \in Users, p \in DOMAIN posts : HandleClaim(u, p)
    \/ \E u \in Users, p \in DOMAIN posts, n \in SlotNumbers : HandleMultipleClaim(u, p, n)
    \/ \E u \in Users, p \in DOMAIN posts, n \in SlotNumbers : HandleUnclaim(u, p, n)
    \/ \E u \in Users, p \in DOMAIN posts, a \in Amounts : HandleOffer(u, p, a)
    \/ \E adm \in Admin, p \in DOMAIN posts, a \in Amounts : HandleCounterOffer(adm, p, a)
    \/ \E u \in Users, p \in DOMAIN posts, n \in SlotNumbers : HandleTake(u, p, n)
    \/ \E adm \in Admin, p \in DOMAIN posts : HandleOfferAcceptance(adm, p)
    \/ \E u \in Users, p \in DOMAIN posts, n \in SlotNumbers, a \in Amounts :
          HandleMultipleOffer(u, p, n, a)
    \/ \E adm \in Admin, p \in DOMAIN posts, n \in SlotNumbers, a \in Amounts :
          HandleMultipleCounterOffer(adm, p, n, a)
    \/ \E adm \in Admin, p \in DOMAIN posts, n \in SlotNumbers :
          HandleMultipleOfferAcceptance(adm, p, n)

Spec == Init /\ [][Next]_vars

----------------------------------------------------------------------------
(* Auctions *)

\* bids users type
MaxBid == 3
BidAmounts == 0..MaxBid
\* the displayed end time written in the modelled auction post
AuctionEnds == 2
AuctionPosts ==
    {[type |-> "auction", price |-> 1, qty |-> 0, anti_snipe |-> a, ends |-> e] :
        a \in BOOLEAN, e \in {0, AuctionEnds}}

\* a variant that compares every bid with 0
NoHighest(bids) == 0
\* max(current_bids.values()) if current_bids else 0
CurrentHighest(bids) == IF DOMAIN bids = {} THEN 0 ELSE MaxValue(bids)

\* auction_data.get("last_outbid_notification", {})
Notifications(ad) ==
    IF Has(ad, "last_outbid_notification") THEN ad.last_outbid_notification ELSE EmptyDict

\* the 2-minute cooldown of the outbid notice to user prev
ShouldNotify(ad, prev) ==
    ~(Has(Notifications(ad), prev) /\ now - Notifications(ad)[prev] < OutbidCooldown)

\* a variant that removes the end jobs and sets none
Unschedule(js, p, at) ==
    {j \in js : ~(j.name = "auction_end" /\ j.post = p)}
\* job_queue: the jobs named auction_end_<p> are removed, a new one is set
Reschedule(js, p, at) ==
    {j \in js : ~(j.name = "auction_end" /\ j.post = p)} \cup {Job("auction_end", p, at)}

\* a variant that extends an auction once only
AntiSnipeOnce(ad) ==
    IF ad.anti_snipe /\ ad.end_time - now <= SnipeWindow /\ ~ad.extended
    THEN [ad EXCEPT !.end_time = @ + FirstExtension,
                    !.extended = TRUE,
                    !.display_end_time = @ + FirstExtension]
    ELSE ad
\* a variant that extends on every bid, whatever the post says and whenever
\* the bid comes
AlwaysExtend(ad) ==
    IF ~ad.extended
    THEN [ad EXCEPT !.end_time = @ + FirstExtension,
                    !.extended = TRUE,
                    !.display_end_time = @ + FirstExtension]
    ELSE [ad EXCEPT !.end_time = @ + NextExtension,
                    !.display_end_time = @ + NextExtension]
\* the anti-snipe step of handle_auction_bid, after the bid is in the table
AntiSnipe(ad) ==
    IF ~ad.anti_snipe THEN ad
    ELSE IF ad.end_time - now <= SnipeWindow /\ ~ad.extended
    THEN [ad EXCEPT !.end_time = @ + FirstExtension,
                    !.extended = TRUE,
                    !.display_end_time = @ + FirstExtension]
    ELSE IF ad.extended /\ ad.end_time - now <= SnipeWindow
    THEN [ad EXCEPT !.end_time = @ + NextExtension,
                    !.display_end_time = @ + NextExtension]
    ELSE ad

\* "Record the bid" and what follows it in handle_auction_bid
RecordBid(ad, p, u, amt) ==
    LET ad1 == [ad EXCEPT !.bids = Put(@, u, amt)]
        ad2 == AntiSnipe(ad1)
    IN  /\ auction_posts' = [auction_posts EXCEPT ![p] = ad2]
        /\ jobs' = IF ad2.end_time # ad1.end_time
                   THEN Reschedule(jobs, p, ad2.end_time) ELSE jobs
        /\ last' = Event("bid", u, 0, "recorded", amt)

\* a reply with a number to auction post p, up to the outbid notice
HandleAuctionBid(u, p, amt) ==
    /\ HandlerMayStart
    /\ p \in ingested
    /\ IF ~Has(auction_posts, p)
       THEN \* not an auction: the number is no bid
            /\ last' = NoEvent
            /\ UNCHANGED <<auction_posts, jobs, cur>>
       ELSE
       LET ad == auction_posts[p]
       IN  IF ~ad.active \/ amt <= CurrentHighest(ad.bids)
           THEN /\ last' = NoEvent
                /\ UNCHANGED <<auction_posts, jobs, cur>>
           ELSE IF DOMAIN ad.bids # {}
                   /\ \E prev \in ArgMax(ad.bids) : prev # u /\ ShouldNotify(ad, prev)
           THEN \* suspended in send_message to the previous highest bidder
                /\ \E prev \in ArgMax(ad.bids) :
                      /\ prev # u /\ ShouldNotify(ad, prev)
                      /\ cur' = [pc |-> "outbid_notice", user |-> u, post |-> p,
                                 amount |-> amt, prev |-> prev, time |-> now]
                /\ UNCHANGED <<auction_posts, jobs, last>>
           ELSE /\ RecordBid(ad, p, u, amt)
                /\ UNCHANGED cur
    /\ UNCHANGED <<posts, awaiting_reset_confirmation, service, attempts, ending, ingested, claimed_posts, waitlists, offer_posts,
                   multiple_claims, user_claims, sheets_tracking, sheet, tasks, now,
                   announced>>

\* handle_auction_bid resumes after the outbid notice: the notice went out or
\* raised; the bid the handler checked before it awaited is recorded
ResumeAuctionBid ==
    /\ cur # Idle /\ cur.pc = "outbid_notice"
    /\ \E delivered \in BOOLEAN :
          LET ad == auction_posts[cur.post]
              ad1 == IF delivered
                     THEN Put(ad, "last_outbid_notification",
                              Put(Notifications(ad), cur.prev, cur.time))
                     ELSE ad
          IN  RecordBid(ad1, cur.post, cur.user, cur.amount)
    /\ cur' = Idle
    /\ UNCHANGED <<posts, awaiting_reset_confirmation, service, attempts, ending, ingested, claimed_posts, waitlists, offer_posts,
                   multiple_claims, user_claims, sheets_tracking, sheet, tasks, now,
                   announced>>

\* the auction_end job fires: end_auction up to its first await
EndAuctionStart(p) ==
    /\ Has(auction_posts, p) /\ ~Has(ending, p)
    /\ \E j \in jobs :
          /\ j.name = "auction_end" /\ j.post = p /\ j.at <= now
          \* the job that fires leaves the queue; the reminder jobs are removed
          /\ jobs' = {k \in jobs : k # j /\ ~(k.name = "auction_reminder" /\ k.post = p)}
    /\ LET bids == auction_posts[p].bids
       IN  IF DOMAIN bids = {}
           THEN ending' = Put(ending, p, [bidder |-> "-", bid |-> 0])
           ELSE \E hb \in ArgMax(bids) :
                   ending' = Put(ending, p, [bidder |-> hb, bid |-> bids[hb]])
    /\ UNCHANGED <<posts, awaiting_reset_confirmation, service, attempts, ingested, claimed_posts, waitlists, offer_posts,
                   multiple_claims, user_claims, auction_posts, sheets_tracking, sheet,
                   tasks, now, cur, announced, last>>

\* end_auction after its awaits: the announcement is out, bidding is closed
EndAuctionFinish(p) ==
    /\ Has(ending, p)
    /\ announced' = Put(announced, p, ending[p])
    /\ ending' = Del(ending, p)
    /\ auction_posts' =
          [auction_posts EXCEPT ![p] =
              [(IF ending[p].bidder = "-" THEN @ ELSE Del(@, "last_outbid_notification"))
                  EXCEPT !.active = FALSE]]
    /\ UNCHANGED <<posts, awaiting_reset_confirmation, service, attempts, ingested, claimed_posts, waitlists, offer_posts,
                   multiple_claims, user_claims, sheets_tracking, sheet, tasks, jobs,
                   now, cur, last>>

\* auction_highest_bid_reminder: a repeating job that only sends a message
AuctionReminder(p) ==
    /\ \E j \in jobs :
          /\ j.name = "auction_reminder" /\ j.post = p /\ j.at <= now
          /\ jobs' = AddJob(jobs \ {j}, [j EXCEPT !.at = @ + ReminderInterval])
    /\ UNCHANGED <<posts, awaiting_reset_confirmation, service, attempts, ending, ingested, claimed_posts, waitlists, offer_posts,
                   multiple_claims, user_claims, auction_posts, sheets_tracking, sheet,
                   tasks, now, cur, announced, last>>

\* a variant that records the win without its price
UnpricedItem(p, price) ==
    [message_id |-> p, price |-> 0, claim_number |-> 0, is_multiple_claim |-> FALSE,
     is_auction |-> TRUE]
\* the record of an auction win
AuctionItem(p, price) ==
    [message_id |-> p, price |-> price, claim_number |-> 0, is_multiple_claim |-> FALSE,
     is_auction |-> TRUE]

\* "yours" / "rp not met" as a reply to auction post p
HandleAuctionConfirmation(adm, p, word) ==
    /\ HandlerMayStart
    /\ p \in ingested /\ Has(auction_posts, p)
    /\ LET ad == auction_posts[p]
       IN  IF ~IsAdminSource(adm) \/ ad.active \/ DOMAIN ad.bids = {}
           THEN /\ last' = NoEvent
                /\ UNCHANGED <<auction_posts, user_claims, tasks>>
           ELSE \E hb \in ArgMax(ad.bids) :
                   IF word = "yours"
                   THEN IF ad.confirmed = "True"
                        THEN /\ last' = NoEvent
                             /\ UNCHANGED <<auction_posts, user_claims, tasks>>
                        ELSE /\ HasRoom(hb)
                             /\ auction_posts' = [auction_posts EXCEPT
                                   ![p].confirmed = "True", ![p].active = FALSE]
                             /\ user_claims' =
                                   AddItem(user_claims, hb, AuctionItem(p, ad.bids[hb]))
                             /\ tasks' = tasks \o <<SoldTask(p, 1), PriceTask(p, ad.bids[hb])>>
                             /\ last' = Event("confirm", hb, 0, "sold", ad.bids[hb])
                   ELSE IF ad.confirmed # "None"
                        THEN /\ last' = NoEvent
                             /\ UNCHANGED <<auction_posts, user_claims, tasks>>
                        ELSE /\ auction_posts' = [auction_posts EXCEPT
                                   ![p].confirmed = "False", ![p].active = FALSE]
                             /\ tasks' = tasks \o <<PriceTask(p, ad.bids[hb])>>
                             /\ last' = Event("confirm", hb, 0, "unreleased", ad.bids[hb])
                             /\ UNCHANGED user_claims
    /\ UNCHANGED <<posts, awaiting_reset_confirmation, service, attempts, ending, ingested, claimed_posts, waitlists, offer_posts,
                   multiple_claims, sheets_tracking, sheet, jobs, now, cur, announced>>

\* a minute passes: no job is due, nothing is suspended in a network call
Tick ==
    /\ now < MaxTime
    /\ cur = Idle /\ tasks = << >> /\ ending = EmptyDict
    /\ \A j \in jobs : j.at > now
    /\ now' = now + 1
    /\ UNCHANGED <<posts, awaiting_reset_confirmation, service, attempts, ending, ingested, claimed_posts, waitlists, offer_posts,
                   multiple_claims, user_claims, auction_posts, sheets_tracking, sheet,
                   tasks, jobs, cur, announced, last>>

InitAuction ==
    /\ \E d \in AuctionPosts : posts = [p \in {PostId} |-> d]
    /\ service \in {"up", "down"}
    /\ InitCommon

NextAuction ==
    \/ \E p \in DOMAIN posts : HandleNewPost(p)
    \/ RunTask
    \/ Tick
    \/ \E u \in Users, p \in DOMAIN posts, a \in BidAmounts : HandleAuctionBid(u, p, a)
    \/ ResumeAuctionBid
    \/ \E p \in DOMAIN posts : EndAuctionStart(p)
    \/ \E p \in DOMAIN posts : EndAuctionFinish(p)
    \/ \E p \in DOMAIN posts : AuctionReminder(p)
    \/ \E adm \in Admin, p \in DOMAIN posts, w \in {"yours", "rp not met"} :
          HandleAuctionConfirmation(adm, p, w)

SpecAuction == InitAuction /\ [][NextAuction]_vars

----------------------------------------------------------------------------
(* Properties of claim and multi posts *)

\* the sale records of post p held in the accounts uc
RecordsOf(uc, p) ==
    UNION {{<<u, i>> : i \in {j \in 1..Len(Account(uc, u).items) :
                                 Account(uc, u).items[j].message_id = p}} : u \in Claimants}
Records(uc, p) == Cardinality(RecordsOf(uc, p))
\* the units of claim post p still open according to claimed_posts cp
Remaining(cp, p) ==
    IF ~Has(cp, p) THEN Quantity(p)
    ELSE IF Has(cp[p], "quantity") THEN cp[p].quantity
    ELSE 0
\* the latest record in the account of u
LatestItem(uc, u) == uc[u].items[Len(uc[u].items)]
\* a step gave u one more record
GainsRecord(u) ==
    Len(Account(user_claims', u).items) = Len(Account(user_claims, u).items) + 1
\* a step took a record from u
LosesRecord(u) ==
    Len(Account(user_claims', u).items) = Len(Account(user_claims, u).items) - 1

\* C2: on a claim post the units sold plus the units remaining equal the
\* post's quantity, and the remaining quantity is never negative
C2_CapacityConserved ==
    \A p \in ingested :
        posts[p].type = "claim" =>
            /\ Remaining(claimed_posts, p) >= 0
            /\ Records(user_claims, p) + Remaining(claimed_posts, p) = Quantity(p)

C4_UnclaimReopens ==
    [][\A u \in Users, p \in DOMAIN posts, n \in SlotNumbers :
          (HandleUnclaim(u, p, n) /\ LosesRecord(u)) =>
              /\ (posts[p].type = "claim" /\ Waitlist(waitlists, p) = << >>) =>
                    /\ Remaining(claimed_posts', p) = Remaining(claimed_posts, p) + 1
                    /\ tasks' = Append(tasks, SoldTask(p, -1))
              /\ (posts[p].type = "multi") =>
                    LET i == IF n # 0 THEN SpecificIndex(u, p, n) ELSE MostRecentIndex(u, p)
                        k == ItemsOf(u)[i].claim_number
                    IN  SlotWaitlist(multiple_claims[p], k) = << >> =>
                           /\ ~SlotTaken(multiple_claims'[p], k)
                           /\ tasks' = Append(tasks, SoldTask(p, -1))]_vars

\* the offers and counter-offers pending on claim post p
NoPendingOffers(op, p) ==
    Has(op, p) => (DOMAIN op[p].offers = {} /\ DOMAIN op[p].counter_offers = {})

\* C5: a "take" or an admin "yours" that sells a unit of a claim post takes
\* one from the remaining quantity and leaves no offer and no counter-offer
\* pending on the post
C5_SaleClearsNegotiation ==
    [][\A u \in Users, p \in DOMAIN posts :
          (/\ posts[p].type = "claim"
           /\ HandleTake(u, p, 0) \/ HandleOfferAcceptance(TRUE, p)
           /\ GainsRecord(u)) =>
              /\ Remaining(claimed_posts', p) = Remaining(claimed_posts, p) - 1
              /\ NoPendingOffers(offer_posts', p)]_vars

\* the price agreed in an earlier sale by offer or counter-offer, as
\* claimed_posts keeps it
Negotiated(cp, p) ==
    Has(cp, p) /\ (Has(cp[p], "offer_price") \/ Has(cp[p], "counter_offer_price"))
NegotiatedPrice(cp, p) ==
    IF Has(cp[p], "offer_price") THEN cp[p].offer_price ELSE cp[p].counter_offer_price

\* C6: once a unit of a post with several units was sold by offer or
\* counter-offer, a claim that is served pays the negotiated price
C6_LaterClaimsPayNegotiated ==
    [][\A u \in Users, p \in DOMAIN posts :
          (HandleClaim(u, p) /\ GainsRecord(u) /\ Negotiated(claimed_posts, p)) =>
              LatestItem(user_claims', u).price = NegotiatedPrice(claimed_posts, p)]_vars

----------------------------------------------------------------------------
(* Claim handlers dispatched concurrently.  A handler gives way only at an
   await: handle_claim awaits while it tells the users who made offers, and
   both handlers await their reply; update_sold_quantity is started after the
   reply *)

\* handle_claim from "Check if this post has already been claimed or sold" to
\* "Mark post as claimed", which holds no await
DecideClaim(u, p) ==
    IF ClaimDecision(claimed_posts, p) = "sell"
    THEN /\ HasRoom(u)
         /\ user_claims' = AddItem(user_claims, u,
                                   Item(p, ClaimPrice(claimed_posts, p), 0, FALSE))
         /\ claimed_posts' = MarkClaimed(claimed_posts, p, u)
         /\ attempts' = [attempts EXCEPT ![u] =
                            [pc |-> "replying", slot |-> 0, result |-> "claimed"]]
         /\ UNCHANGED waitlists
    ELSE /\ waitlists' = JoinWaitlist(waitlists, p, u)
         /\ attempts' = [attempts EXCEPT ![u] =
                            [pc |-> "replying", slot |-> 0, result |-> "waitlisted"]]
         /\ UNCHANGED <<user_claims, claimed_posts>>

\* "claim" by u as a reply to post p arrives
StartClaim(u, p) ==
    /\ attempts[u].pc = "none"
    /\ p \in ingested /\ posts[p].type = "claim"
    /\ IF Has(offer_posts, p) /\ DOMAIN offer_posts[p].offers # {}
       THEN \* suspended in send_message to the first user who made an offer
            /\ attempts' = [attempts EXCEPT ![u].pc = "notifying"]
            /\ UNCHANGED <<user_claims, claimed_posts, waitlists>>
       ELSE DecideClaim(u, p)
    /\ UNCHANGED <<posts, awaiting_reset_confirmation, service, ending, ingested, offer_posts, multiple_claims,
                   auction_posts, sheets_tracking, sheet, tasks, jobs, now, cur,
                   announced, last>>

\* handle_claim resumes after the notices: the offers are dropped, the claim
\* is decided
ResumeClaim(u, p) ==
    /\ attempts[u].pc = "notifying"
    /\ p \in ingested /\ posts[p].type = "claim"
    /\ offer_posts' = Put(offer_posts, p, [offers |-> EmptyDict, counter_offers |-> EmptyDict])
    /\ DecideClaim(u, p)
    /\ UNCHANGED <<posts, awaiting_reset_confirmation, service, ending, ingested, multiple_claims, auction_posts,
                   sheets_tracking, sheet, tasks, jobs, now, cur, announced, last>>

\* "claim n" by u as a reply to multi post p arrives: handle_multiple_claim
\* up to its reply
StartMultipleClaim(u, p, n) ==
    /\ attempts[u].pc = "none"
    /\ p \in ingested /\ posts[p].type = "multi"
    /\ IF n < 1 \/ n > TotalQuantity(p)
       THEN /\ attempts' = [attempts EXCEPT ![u] =
                               [pc |-> "done", slot |-> n, result |-> "rejected"]]
            /\ UNCHANGED <<multiple_claims, user_claims>>
       ELSE LET mc1 == IF Has(multiple_claims, p) THEN multiple_claims
                       ELSE Put(multiple_claims, p, NewMultiData(p))
                md == mc1[p]
            IN  IF SlotTaken(md, n)
                THEN /\ multiple_claims' = [mc1 EXCEPT ![p] = JoinSlotWaitlist(md, n, u)]
                     /\ attempts' = [attempts EXCEPT ![u] =
                                        [pc |-> "replying", slot |-> n, result |-> "waitlisted"]]
                     /\ UNCHANGED user_claims
                ELSE /\ HasRoom(u)
                     /\ multiple_claims' = [mc1 EXCEPT ![p].claims = Put(@, n, u)]
                     /\ user_claims' = AddItem(user_claims, u, Item(p, posts[p].price, n, TRUE))
                     /\ attempts' = [attempts EXCEPT ![u] =
                                        [pc |-> "replying", slot |-> n, result |-> "claimed"]]
    /\ UNCHANGED <<posts, awaiting_reset_confirmation, service, ending, ingested, claimed_posts, waitlists, offer_posts,
                   auction_posts, sheets_tracking, sheet, tasks, jobs, now, cur,
                   announced, last>>

\* the reply is out: a claim that was served starts update_sold_quantity
FinishClaim(u, p) ==
    /\ attempts[u].pc = "replying"
    /\ p \in ingested
    /\ attempts' = [attempts EXCEPT ![u].pc = "done"]
    /\ tasks' = IF attempts[u].result = "claimed"
                THEN Append(tasks, SoldTask(p, 1)) ELSE tasks
    /\ UNCHANGED <<posts, awaiting_reset_confirmation, service, ending, ingested, claimed_posts, waitlists, offer_posts,
                   multiple_claims, user_claims, auction_posts, sheets_tracking, sheet,
                   jobs, now, cur, announced, last>>

NextRace ==
    \/ \E p \in DOMAIN posts : HandleNewPost(p)
    \/ RunTask
    \/ \E u \in Users, p \in DOMAIN posts, a \in Amounts : HandleOffer(u, p, a)
    \/ \E u \in Claimants, p \in DOMAIN posts : StartClaim(u, p)
    \/ \E u \in Claimants, p \in DOMAIN posts : ResumeClaim(u, p)
    \/ \E u \in Claimants, p \in DOMAIN posts, n \in SlotNumbers : StartMultipleClaim(u, p, n)
    \/ \E u \in Claimants, p \in DOMAIN posts : FinishClaim(u, p)

SpecRace == Init /\ [][NextRace]_vars

----------------------------------------------------------------------------
(* Properties of concurrent claims *)

\* the users whose claim on slot n was served / waitlisted
Won(n) == {u \in Claimants : attempts[u].result = "claimed" /\ attempts[u].slot = n}
Lost(n) == {u \in Claimants : attempts[u].result = "waitlisted" /\ attempts[u].slot = n}

\* C1: however the claim handlers of distinct users interleave at their
\* awaits, an open slot gets one owner: the claims served never exceed the
\* units of the slot, each has its one sale record, the owner on record is a
\* user whose claim was served, and a claim is waitlisted only once the slot
\* is taken
C1_MutualExclusion ==
    \A p \in ingested :
        /\ posts[p].type = "claim" =>
              /\ Cardinality(Won(0)) <= Quantity(p)
              /\ Records(user_claims, p) = Cardinality(Won(0))
              /\ Lost(0) # {} => Cardinality(Won(0)) = Quantity(p)
              /\ (Quantity(p) = 1 /\ Has(claimed_posts, p)) =>
                     Won(0) = {claimed_posts[p].user_id}
        /\ posts[p].type = "multi" =>
              \A n \in 1..TotalQuantity(p) :
                  /\ Cardinality(Won(n)) <= 1
                  /\ Lost(n) # {} => Won(n) # {}
                  /\ Won(n) # {} => Won(n) = {multiple_claims[p].claims[n]}
                  /\ Cardinality({r \in RecordsOf(user_claims, p) :
                        user_claims[r[1]].items[r[2]].claim_number = n}) = Cardinality(Won(n))

\* C1 witness: three claim handlers on a Single post were in flight together,
\* one was served and the others waitlisted
C1_Raced ==
    /\ posts[PostId].type = "claim" /\ Quantity(PostId) = 1
    /\ \A u \in Claimants : attempts[u].pc = "replying"
    /\ Cardinality(Won(0)) = 1
    /\ Cardinality(Lost(0)) = 2

----------------------------------------------------------------------------
(* Properties of auctions *)

\* the highest bid in a table of bids, 0 for an empty one
HighestBid(b) == IF DOMAIN b = {} THEN 0 ELSE MaxValue(b)

\* C7: once an auction has been confirmed or rejected, a further "yours" or
\* "rp not met" adds no sale record, starts no ledger update and leaves the
\* auction as it was
C7_ConfirmOnce ==
    [][\A p \in DOMAIN auction_posts :
          (/\ auction_posts[p].confirmed # "None"
           /\ \E adm \in Admin, w \in {"yours", "rp not met"} :
                 HandleAuctionConfirmation(adm, p, w)) =>
              UNCHANGED <<user_claims, tasks, auction_posts>>]_vars

\* C8: a step that changes the bids of an auction records one bid, above the
\* highest bid before the step; a bid that is not above the highest bid
\* leaves the bids as they were
C8_BidsIncrease ==
    [][\A p \in DOMAIN auction_posts :
          LET b == auction_posts[p].bids
              b2 == auction_posts'[p].bids
          IN  /\ b2 # b =>
                    \E u \in Users :
                        /\ Has(b2, u) /\ b2 = Put(b, u, b2[u])
                        /\ b2[u] > HighestBid(b)
                        /\ HighestBid(b2) = b2[u]
              /\ \A u \in Users, a \in BidAmounts :
                    (a <= HighestBid(b) /\ HandleAuctionBid(u, p, a)) => b2 = b]_vars

\* C8 witness: the second bidder of an auction has just outbid the first
C8_Outbid ==
    /\ Has(auction_posts, PostId)
    /\ Cardinality(DOMAIN auction_posts[PostId].bids) = 2
    /\ last.op = "bid" /\ last.result = "recorded"
    /\ last.price = HighestBid(auction_posts[PostId].bids)
    /\ \E u \in Users : auction_posts[PostId].bids[u] < last.price

\* C9: what end_auction announced stays the highest bid and a highest bidder
\* of the auction
C9_AnnouncedStandsHighest ==
    \A p \in DOMAIN announced :
        /\ announced[p].bid = HighestBid(auction_posts[p].bids)
        /\ DOMAIN auction_posts[p].bids # {} =>
              announced[p].bidder \in ArgMax(auction_posts[p].bids)

----------------------------------------------------------------------------
(* Offers and counter-offers *)

\* the offers pending on slot n of post p (n = 0: the claim post itself)
OfferBook(op, mc, p, n) ==
    IF n = 0
    THEN (IF Has(op, p) THEN op[p].offers ELSE EmptyDict)
    ELSE (IF Has(mc, p) /\ Has(Field(mc[p], "offers"), n) THEN mc[p].offers[n] ELSE EmptyDict)

\* C11: a step that replaces a user's offer on a slot replaces it by a higher
\* one, and an offer not above the user's own pending offer on the slot
\* leaves the slot's offers as they were
C11_OffersIncrease ==
    [][\A p \in DOMAIN posts, n \in SlotNumbers, u \in Users :
          LET b == OfferBook(offer_posts, multiple_claims, p, n)
              b2 == OfferBook(offer_posts', multiple_claims', p, n)
          IN  /\ (Has(b, u) /\ Has(b2, u) /\ b2[u] # b[u]) => b2[u] > b[u]
              /\ \A a \in Amounts :
                    (/\ Has(b, u) /\ a <= b[u]
                     /\ IF n = 0 THEN HandleOffer(u, p, a)
                                 ELSE HandleMultipleOffer(u, p, n, a)) => b2 = b]_vars

\* slot n of post p (n = 0: the claim post itself) has nothing left to sell
NoCapacity(cp, mc, p, n) ==
    IF n = 0
    THEN posts[p].type = "claim" /\ Remaining(cp, p) = 0
    ELSE posts[p].type = "multi" /\ Has(mc, p) /\ SlotTaken(mc[p], n)

\* C12: an offer on a slot that has nothing left to sell leaves the offers of
\* the slot as they were
C12_NoOfferOnSoldOut ==
    [][\A p \in DOMAIN posts, n \in SlotNumbers, u \in Users, a \in Amounts :
          (/\ NoCapacity(claimed_posts, multiple_claims, p, n)
           /\ IF n = 0 THEN HandleOffer(u, p, a) ELSE HandleMultipleOffer(u, p, n, a)) =>
              OfferBook(offer_posts', multiple_claims', p, n) =
                 OfferBook(offer_posts, multiple_claims, p, n)]_vars

\* the counter-offers pending on slot n of post p (n = 0: the claim post itself)
CounterBook(op, mc, p, n) ==
    IF n = 0
    THEN (IF Has(op, p) THEN op[p].counter_offers ELSE EmptyDict)
    ELSE (IF Has(mc, p) /\ Has(Field(mc[p], "counter_offers"), n)
          THEN mc[p].counter_offers[n] ELSE EmptyDict)

\* C13: a step that records a counter-offer records it for a user holding the
\* highest offer of the slot, above that offer; a counter-offer that is not
\* above the highest offer, or on a slot with no offer, changes nothing
C13_CounterAboveHighest ==
    [][\A p \in DOMAIN posts, n \in SlotNumbers :
          LET b == OfferBook(offer_posts, multiple_claims, p, n)
              c == CounterBook(offer_posts, multiple_claims, p, n)
              c2 == CounterBook(offer_posts', multiple_claims', p, n)
          IN  /\ c2 # c =>
                    \A u \in Users :
                       (Has(c2, u) /\ (Has(c, u) => c2[u] # c[u])) =>
                           /\ DOMAIN b # {} /\ u \in ArgMax(b)
                           /\ c2[u] > MaxValue(b)
              /\ \/ UNCHANGED <<offer_posts, multiple_claims, claimed_posts,
                                waitlists, user_claims, tasks>>
                 \/ \A adm \in Admin, a \in Amounts :
                       (DOMAIN b = {} \/ a <= MaxValue(b)) =>
                          ~(IF n = 0 THEN HandleCounterOffer(adm, p, a)
                                     ELSE HandleMultipleCounterOffer(adm, p, n, a))]_vars

\* C13 witness: the admin has just countered the one highest offer of a slot
\* on which a second, lower offer is pending
C13_Countered ==
    /\ last.op = "counter" /\ last.result = "recorded"
    /\ LET b == OfferBook(offer_posts, multiple_claims, PostId, last.slot)
           c == CounterBook(offer_posts, multiple_claims, PostId, last.slot)
       IN  /\ Has(c, last.user) /\ c[last.user] = last.price
           /\ Has(b, last.user) /\ b[last.user] < last.price

\* C14: every counter-offer pending on a slot is above the highest offer
\* pending on the slot
C14_CountersAboveOffers ==
    \A p \in DOMAIN posts, n \in SlotNumbers :
        LET b == OfferBook(offer_posts, multiple_claims, p, n)
            c == CounterBook(offer_posts, multiple_claims, p, n)
        IN  DOMAIN b # {} => \A u \in DOMAIN c : c[u] > MaxValue(b)

----------------------------------------------------------------------------
(* Claims on taken slots and waitlists *)

\* slot n of post p was sold through an accepted offer or a taken
\* counter-offer and has nothing left: a multi slot in accepted_offers, or a
\* claim post whose claimed_posts entry keeps a negotiated price
SoldViaOffer(cp, mc, p, n) ==
    /\ NoCapacity(cp, mc, p, n)
    /\ IF n = 0 THEN Negotiated(cp, p)
                ELSE Has(Field(mc[p], "accepted_offers"), n)

\* C15: a claim on a slot that was sold through an offer or counter-offer and
\* has nothing left changes nothing: no sale, no waitlist entry
C15_ClaimOnSoldViaOffer ==
    [][\A p \in DOMAIN posts, n \in SlotNumbers, u \in Users :
          (/\ SoldViaOffer(claimed_posts, multiple_claims, p, n)
           /\ IF n = 0 THEN HandleClaim(u, p) ELSE HandleMultipleClaim(u, p, n)) =>
              UNCHANGED <<waitlists, multiple_claims, claimed_posts, offer_posts,
                          user_claims, tasks>>]_vars

\* C16: the owner of a taken slot is not on the waitlist of that slot
C16_OwnerNotWaiting ==
    \A p \in ingested :
        /\ (/\ posts[p].type = "claim" /\ Has(claimed_posts, p)
            /\ ~Has(claimed_posts[p], "quantity")) =>
              ~InSeq(claimed_posts[p].user_id, Waitlist(waitlists, p))
        /\ (posts[p].type = "multi" /\ Has(multiple_claims, p)) =>
              \A n \in DOMAIN multiple_claims[p].claims :
                  ~InSeq(multiple_claims[p].claims[n], SlotWaitlist(multiple_claims[p], n))

\* the waitlist of slot n of post p (n = 0: the claim post itself)
SlotList(wl, mc, p, n) ==
    IF n = 0 THEN Waitlist(wl, p)
    ELSE IF Has(mc, p) THEN SlotWaitlist(mc[p], n) ELSE << >>
\* the slot the latest record of u stands for
LatestSlot(uc, u) ==
    IF LatestItem(uc, u).is_multiple_claim THEN LatestItem(uc, u).claim_number ELSE 0
\* the latest record of u is a unit of slot n of post p
HoldsLatest(uc, u, p, n) ==
    /\ Len(Account(uc, u).items) > 0
    /\ LatestItem(uc, u).message_id = p
    /\ LatestSlot(uc, u) = n

\* C17: the waitlist of a slot changes only by a user joining at its end, by
\* its head leaving it to take the slot over, or by being emptied when a
\* counter-offer is taken; and a step that hands a unit from one user to
\* another hands it to the head of the slot's waitlist, the others keeping
\* their order
C17_WaitlistFIFO ==
    [][/\ \A p \in DOMAIN posts, n \in SlotNumbers :
             LET w == SlotList(waitlists, multiple_claims, p, n)
                 w2 == SlotList(waitlists', multiple_claims', p, n)
             IN  w2 # w =>
                    \/ \E u \in Users : w2 = Append(w, u)
                    \/ /\ w # << >> /\ w2 = Tail(w)
                       /\ HoldsLatest(user_claims', Head(w), p, n)
                    \/ /\ w2 = << >>
                       /\ \E u \in Users : HandleTake(u, p, 0)
       /\ \A u, v \in Users :
             (u # v /\ LosesRecord(u) /\ GainsRecord(v)) =>
                LET p == LatestItem(user_claims', v).message_id
                    n == LatestSlot(user_claims', v)
                    w == SlotList(waitlists, multiple_claims, p, n)
                IN  /\ w # << >> /\ v = Head(w)
                    /\ SlotList(waitlists', multiple_claims', p, n) = Tail(w)]_vars

\* C17 witness: the head of a waitlist of two users has just taken the slot
\* over from another user, and the second user is still waiting
C17_HeadServed ==
    /\ last.op = "unclaim" /\ last.result = "transferred"
    /\ \E v \in Users :
          /\ v # last.user
          /\ HoldsLatest(user_claims, v, PostId, last.slot)
          /\ SlotList(waitlists, multiple_claims, PostId, last.slot) = <<last.user>>

\* no user is twice in the list w
NoDuplicates(w) == \A i, j \in 1..Len(w) : w[i] = w[j] => i = j

\* C18: after every step no user is twice on the waitlist of a slot, and a
\* claim by a user who is on the waitlist of the slot leaves the waitlist as
\* it was
C18_OnceOnWaitlist ==
    [][\A p \in DOMAIN posts, n \in SlotNumbers :
          LET w == SlotList(waitlists, multiple_claims, p, n)
              w2 == SlotList(waitlists', multiple_claims', p, n)
          IN  /\ NoDuplicates(w2)
              /\ \/ w2 = w
                 \/ \A u \in Users :
                       InSeq(u, w) =>
                          ~(IF n = 0 THEN HandleClaim(u, p)
                                     ELSE HandleMultipleClaim(u, p, n))]_vars

\* C18 witness: a user who was on a waitlist ahead of another user has just
\* claimed again, and the waitlist still holds each of them once
C18_ClaimedAgain ==
    /\ last.op = "claim" /\ last.result = "waitlisted"
    /\ \E v \in Users :
          /\ v # last.user
          /\ SlotList(waitlists, multiple_claims, PostId, last.slot) = <<last.user, v>>

----------------------------------------------------------------------------
(* Auction confirmation *)

\* C19: an admin "yours" on an ended auction that has bids and was not
\* confirmed before gives the highest bidder one record of the post at the
\* highest bid, leaves the other accounts alone and starts a sold-quantity
\* update of +1 and a price update to the highest bid; on a tracked post the
\* sold-quantity update raises the tracked sold quantity by 1
C19_WonIsOneSale ==
    [][\A p \in DOMAIN auction_posts :
          LET ad == auction_posts[p]
          IN  /\ (/\ ~ad.active /\ DOMAIN ad.bids # {} /\ ad.confirmed # "True"
                  /\ HandleAuctionConfirmation(TRUE, p, "yours")) =>
                     \E hb \in Users :
                        /\ Has(ad.bids, hb) /\ ad.bids[hb] = HighestBid(ad.bids)
                        /\ GainsRecord(hb)
                        /\ LatestItem(user_claims', hb).message_id = p
                        /\ LatestItem(user_claims', hb).price = HighestBid(ad.bids)
                        /\ \A v \in Users \ {hb} :
                              Account(user_claims', v) = Account(user_claims, v)
                        /\ tasks' = tasks \o <<SoldTask(p, 1), PriceTask(p, HighestBid(ad.bids))>>
              /\ (/\ tasks # << >> /\ Head(tasks) = SoldTask(p, 1) /\ Tracked(p)
                  /\ RunTask) =>
                     sheets_tracking'[p].sold_quantity = sheets_tracking[p].sold_quantity + 1]_vars

\* C19 witness: an auction with two bidders has just been confirmed for the
\* higher bidder, and both ledger updates are waiting to run
C19_Won ==
    /\ last.op = "confirm" /\ last.result = "sold"
    /\ Has(auction_posts, PostId)
    /\ Cardinality(DOMAIN auction_posts[PostId].bids) = 2
    /\ last.price = HighestBid(auction_posts[PostId].bids)
    /\ HoldsLatest(user_claims, last.user, PostId, 0)
    /\ tasks = <<SoldTask(PostId, 1), PriceTask(PostId, last.price)>>

\* C20: an admin "rp not met" on an ended auction that has bids and was not
\* resolved before starts one price update to the highest bid and nothing
\* else: the accounts and the tracked and written quantities stay as they
\* were; the price update, when it runs, writes the price of the post's row
\* and leaves its sold and available quantities and the accounts alone
C20_ReserveNotMetIsPriceOnly ==
    [][\A p \in DOMAIN auction_posts :
          LET ad == auction_posts[p]
          IN  /\ (/\ ~ad.active /\ DOMAIN ad.bids # {} /\ ad.confirmed = "None"
                  /\ HandleAuctionConfirmation(TRUE, p, "rp not met")) =>
                     /\ tasks' = Append(tasks, [fn |-> "update_post_price", post |-> p,
                                                arg |-> HighestBid(ad.bids)])
                     /\ UNCHANGED <<user_claims, sheets_tracking, sheet>>
              /\ (/\ tasks # << >> /\ Head(tasks).fn = "update_post_price"
                  /\ Head(tasks).post = p /\ RunTask) =>
                     /\ UNCHANGED <<user_claims, sheets_tracking>>
                     /\ IF Tracked(p) /\ service = "up"
                        THEN sheet' = [sheet EXCEPT ![sheets_tracking[p].row_number].price =
                                                        Head(tasks).arg]
                        ELSE sheet' = sheet]_vars

\* C20 witness: the reserve of an auction with two bidders was declared not
\* met and the price update has run: the row shows the highest bid, nothing
\* sold, and no account exists
C20_ReserveNotMet ==
    /\ last.op = "confirm" /\ last.result = "unreleased"
    /\ Has(auction_posts, PostId)
    /\ Cardinality(DOMAIN auction_posts[PostId].bids) = 2
    /\ last.price = HighestBid(auction_posts[PostId].bids)
    /\ tasks = << >> /\ Tracked(PostId)
    /\ sheet[sheets_tracking[PostId].row_number].price = last.price
    /\ sheet[sheets_tracking[PostId].row_number].sold = 0
    /\ sheets_tracking[PostId].sold_quantity = 0
    /\ user_claims = EmptyDict


\* ---- C21: the effective end time is the displayed end time plus a minute ----

\* C21: every auction's effective end time is at or after its displayed end
\* time and is exactly one minute after it, at creation and after every
\* anti-snipe extension.
C21_EndIsDisplayPlusOne ==
    \A p \in DOMAIN auction_posts :
        /\ auction_posts[p].end_time >= auction_posts[p].display_end_time
        /\ auction_posts[p].end_time = auction_posts[p].display_end_time + 1

\* the part of C21 that the code keeps: the effective end time is never before
\* the displayed one, and an auction with a written end time, extended or not,
\* ends one minute after the time it displays
C21_EndNotBeforeDisplay ==
    \A p \in DOMAIN auction_posts :
        /\ auction_posts[p].end_time >= auction_posts[p].display_end_time
        /\ posts[p].ends # 0 =>
              auction_posts[p].end_time = auction_posts[p].display_end_time + 1


\* ---- C22: one pending end timer per auction ----

\* job_queue.get_jobs_by_name("auction_end_<p>")
EndJobs(js, p) == {j \in js : j.name = "auction_end" /\ j.post = p}

\* how many jobs of one post the queue holds before the post may be set up
\* once more
MaxPending == 2
\* the channel post p is edited (an auction post: while its auction runs): its
\* handler takes edited posts as it takes new ones, and runs for the same
\* message id a second time
HandleEditedPost(p) ==
    /\ p \in ingested
    /\ posts[p].type = "auction" =>
          /\ Has(auction_posts, p) /\ auction_posts[p].active
          /\ ~Has(ending, p) /\ ~Has(announced, p)
    /\ Cardinality({j \in jobs : j.post = p}) <= MaxPending
    /\ NewPost(p)

NextEdit ==
    \/ NextAuction
    \/ \E p \in DOMAIN posts : HandleEditedPost(p)

\* an auction with a written end time whose post may be edited
InitEdit ==
    /\ \E d \in AuctionPosts : d.ends # 0 /\ posts = [p \in {PostId} |-> d]
    /\ service = "up"
    /\ InitCommon

SpecEdit == InitEdit /\ [][NextEdit]_vars

\* C22: an auction never has more than one pending end job, the pending end
\* job is set for the auction's current end time, and a step that extends the
\* auction leaves no end job set for the time before the extension.
C22_OneEndTimer ==
    /\ \A p \in DOMAIN posts : Cardinality(EndJobs(jobs, p)) <= 1
    /\ \A p \in DOMAIN auction_posts :
          \A j \in EndJobs(jobs, p) : j.at = auction_posts[p].end_time


\* ---- C23: reminder timers at the end of an auction and at an extension ----

\* job_queue.get_jobs_by_name("auction_reminder_<p>")
ReminderJobs(js, p) == {j \in js : j.name = "auction_reminder" /\ j.post = p}

\* C23: every reminder job of an auction is cancelled when end_auction runs
\* and when a bid extends the auction: after the end no reminder job of the
\* auction is pending, and none of the reminder jobs pending before an
\* extension is pending after it.
C23_RemindersCancelled ==
    [][\A p \in DOMAIN auction_posts :
          /\ (Has(ending', p) /\ ~Has(ending, p)) => ReminderJobs(jobs', p) = {}
          /\ auction_posts'[p].end_time > auction_posts[p].end_time
                => ReminderJobs(jobs, p) \cap ReminderJobs(jobs', p) = {}]_vars

\* the part of C23 that the code keeps: once end_auction has run, no reminder
\* job of the auction is pending
C23_NoReminderAfterEnd ==
    \A p \in DOMAIN auction_posts :
        (Has(ending, p) \/ ~auction_posts[p].active) => ReminderJobs(jobs, p) = {}


\* ---- C24: an auction whose end time has passed is not created ----

C25_MirrorConservation ==
    \A p \in DOMAIN sheets_tracking :
        LET total == OriginalAvailable(sheets_tracking, multiple_claims, p)
        IN  /\ sheets_tracking[p].sold_quantity + sheets_tracking[p].available_quantity = total
            /\ 0 <= sheets_tracking[p].sold_quantity
            /\ sheets_tracking[p].sold_quantity <= total

\* the part of C25 that the code keeps: the quantities of a claim post add up
\* in every state, those of a multi post once update_sold_quantity has run
C25_ConservedAfterSync ==
    /\ \A p \in DOMAIN sheets_tracking :
          posts[p].type # "multi" =>
             /\ sheets_tracking[p].sold_quantity + sheets_tracking[p].available_quantity
                   = sheets_tracking[p].original_available_quantity
             /\ sheets_tracking[p].sold_quantity \in 0..sheets_tracking[p].original_available_quantity


\* ---- C26: the sheet updates of a post are applied in the order dispatched ----

InitLedger ==
    /\ \E d \in ClaimPosts : posts = [p \in {PostId} |-> d]
    /\ service = "flaky"
    /\ InitCommon

\* /recover_post <id>: context.bot.get_message is no method of the bot, the
\* call raises, the handler answers that it could not find the message and
\* returns before record_post_immediately
RecoverPost(adm, p) ==
    /\ HandlerMayStart
    /\ p \in DOMAIN posts
    /\ last' = NoEvent
    /\ UNCHANGED <<posts, awaiting_reset_confirmation, service, attempts, ending, ingested, claimed_posts, waitlists,
                   offer_posts, multiple_claims, user_claims, auction_posts,
                   sheets_tracking, sheet, tasks, jobs, now, cur, announced>>

\* the handlers that record a claim post and dispatch its sheet updates
NextLedger ==
    \/ \E p \in DOMAIN posts : HandleNewPost(p)
    \/ \E p \in DOMAIN posts : HandleEditedPost(p)
    \/ \E adm \in Admin, p \in DOMAIN posts : RecoverPost(adm, p)
    \/ RunTask
    \/ \E u \in Users, p \in DOMAIN posts : HandleClaim(u, p)
    \/ \E u \in Users, p \in DOMAIN posts, n \in SlotNumbers : HandleUnclaim(u, p, n)
    \/ \E u \in Users, p \in DOMAIN posts, a \in Amounts : HandleOffer(u, p, a)
    \/ \E adm \in Admin, p \in DOMAIN posts : HandleOfferAcceptance(adm, p)

SpecLedger == InitLedger /\ [][NextLedger]_vars

\* C27: whatever the outcome of its store calls, a sheet update leaves the
\* claims, waitlists, offers and accounts as the dispatching handler committed
\* them and is gone from the pending updates when it has run: nothing is
\* rolled back, nothing reaches the handler, nothing is run again.
C27_FailureKeepsMutation ==
    [][tasks # << >> =>
          /\ UNCHANGED <<claimed_posts, waitlists, offer_posts, multiple_claims,
                         user_claims, auction_posts, cur, last>>
          /\ tasks' = Tail(tasks)]_vars
C27_FailedWrite ==
    \E p \in DOMAIN sheets_tracking :
        /\ Tracked(p) /\ tasks = << >>
        /\ sheets_tracking[p].sold_quantity = 1
        /\ sheet[sheets_tracking[p].row_number].sold = 0
        /\ Records(user_claims, p) = 1


\* ---- C28: one sheet row per post ----

\* C28: over the arrival and the editing of a post, /recover_post and the
\* sheet updates, a row is appended only when a post not yet tracked arrives,
\* one row at most per post; the row number of a post never changes once it
\* is set, and no row ever leaves the sheet.
C28_OneRowPerPost ==
    [][/\ Len(sheet') >= Len(sheet)
       /\ Len(sheet') > Len(sheet) =>
             /\ Len(sheet') = Len(sheet) + 1
             /\ \E p \in DOMAIN posts :
                   /\ ~Has(sheets_tracking, p)
                   /\ Has(sheets_tracking', p)
                   /\ sheets_tracking'[p].row_number = Len(sheet')
       /\ \A p \in DOMAIN sheets_tracking :
             sheets_tracking[p].row_number # 0 =>
                /\ Has(sheets_tracking', p)
                /\ sheets_tracking'[p].row_number = sheets_tracking[p].row_number
       /\ Len(sheet') <= Cardinality({p \in DOMAIN sheets_tracking' :
                                         sheets_tracking'[p].row_number # 0})]_vars
C28_EditedAfterSale ==
    \E p \in DOMAIN sheets_tracking :
        /\ Tracked(p) /\ Len(sheet) = 1
        /\ sheets_tracking[p].sold_quantity = 1
        /\ sheets_tracking[p].available_quantity = Quantity(p)


\* ---- account and system resets ----

\* list.remove(u): the first occurrence of u leaves the list
RemoveFirst(w, u) ==
    RemoveAt(w, CHOOSE i \in 1..Len(w) : w[i] = u /\ \A j \in 1..(i - 1) : w[j] # u)
\* the mutation without the deletion of the lists left empty
KeepEmptied(d, u) ==
    [k \in DOMAIN d |-> IF InSeq(u, d[k]) THEN RemoveFirst(d[k], u) ELSE d[k]]
\* a dict of lists without u; a list left empty is deleted
WithoutUser(d, u) ==
    LET kept == {k \in DOMAIN d : ~(InSeq(u, d[k]) /\ Len(d[k]) = 1)}
    IN  [k \in kept |-> IF InSeq(u, d[k]) THEN RemoveFirst(d[k], u) ELSE d[k]]

\* waitlist_removed + multi_waitlist_removed: the lists the user leaves
WaitlistRemoved(u) ==
    Cardinality({k \in DOMAIN waitlists : InSeq(u, waitlists[k])})
    + Cardinality({k \in {<<p, n>> : p \in DOMAIN multiple_claims, n \in SlotNumbers} :
                     /\ Has(multiple_claims[k[1]], "waitlist")
                     /\ Has(multiple_claims[k[1]].waitlist, k[2])
                     /\ InSeq(u, multiple_claims[k[1]].waitlist[k[2]])})

\* "/reset_user <id> [confirm]": the account is replaced by an empty one and
\* the user leaves every waitlist
ResetSpecificUser(adm, target, confirm) ==
    /\ HandlerMayStart
    /\ IF ~adm \/ ~Has(user_claims, target) \/ ~confirm
       THEN /\ last' = NoEvent
            /\ UNCHANGED <<user_claims, waitlists, multiple_claims>>
       ELSE /\ user_claims' = Put(user_claims, target, NewAccount)
            /\ waitlists' = WithoutUser(waitlists, target)
            /\ multiple_claims' =
                  [p \in DOMAIN multiple_claims |->
                      IF Has(multiple_claims[p], "waitlist")
                      THEN [multiple_claims[p] EXCEPT !.waitlist = WithoutUser(@, target)]
                      ELSE multiple_claims[p]]
            /\ last' = [NoEvent EXCEPT !.op = "reset_user", !.user = target,
                                        !.slot = WaitlistRemoved(target)]
    /\ UNCHANGED <<posts, awaiting_reset_confirmation, service, attempts, ending, ingested,
                   claimed_posts, offer_posts, auction_posts, sheets_tracking, sheet,
                   tasks, jobs, now, cur, announced>>

\* update.message.text.lower() of the messages the command handler of
\* /reset_all_claims is given: the command, alone or followed by words
CommandTexts == {"/reset_all_claims", "/reset_all_claims yes", "/reset_all_claims confirm"}

\* reset_all_claims, the handler of the command /reset_all_claims
ResetAllClaims(adm, text) ==
    /\ HandlerMayStart
    /\ IF ~adm
       THEN /\ last' = NoEvent
            /\ UNCHANGED <<awaiting_reset_confirmation, user_claims, claimed_posts,
                           waitlists, multiple_claims, auction_posts, offer_posts>>
       ELSE IF ~awaiting_reset_confirmation
       THEN \* the first call asks for a confirmation
            /\ awaiting_reset_confirmation' = TRUE
            /\ last' = NoEvent
            /\ UNCHANGED <<user_claims, claimed_posts, waitlists, multiple_claims,
                           auction_posts, offer_posts>>
       ELSE IF text \in {"yes", "y"}
       THEN /\ awaiting_reset_confirmation' = FALSE
            /\ user_claims' =
                  [u \in DOMAIN user_claims |->
                      IF user_claims[u].items # << >> THEN NewAccount ELSE user_claims[u]]
            /\ claimed_posts' = EmptyDict
            /\ waitlists' = EmptyDict
            /\ multiple_claims' = EmptyDict
            /\ auction_posts' = EmptyDict
            /\ offer_posts' = EmptyDict
            /\ last' = [NoEvent EXCEPT !.op = "reset_all"]
       ELSE IF text \in {"no", "n"}
       THEN /\ awaiting_reset_confirmation' = FALSE
            /\ last' = NoEvent
            /\ UNCHANGED <<user_claims, claimed_posts, waitlists, multiple_claims,
                           auction_posts, offer_posts>>
       ELSE \* "Please answer with 'yes' or 'no'": the flag stays set
            /\ last' = NoEvent
            /\ UNCHANGED <<awaiting_reset_confirmation, user_claims, claimed_posts,
                           waitlists, multiple_claims, auction_posts, offer_posts>>
    /\ UNCHANGED <<posts, service, attempts, ending, ingested, sheets_tracking, sheet,
                   tasks, jobs, now, cur, announced>>

\* the admin answers the confirmation with the button "Yes": a text that is
\* no command and no reply goes to handle_new_post, which finds no post in it
HandleConfirmationText ==
    /\ HandlerMayStart
    /\ awaiting_reset_confirmation
    /\ last' = [NoEvent EXCEPT !.op = "yes"]
    /\ UNCHANGED <<posts, awaiting_reset_confirmation, service, attempts, ending, ingested,
                   claimed_posts, waitlists, offer_posts, multiple_claims, user_claims,
                   auction_posts, sheets_tracking, sheet, tasks, jobs, now, cur,
                   announced>>

InitReset ==
    /\ \E d \in ClaimPosts \cup MultiPosts : posts = [p \in {PostId} |-> d]
    /\ service = "up"
    /\ InitCommon

NextReset ==
    \/ \E p \in DOMAIN posts : HandleNewPost(p)
    \/ RunTask
    \/ \E u \in Users, p \in DOMAIN posts : HandleClaim(u, p)
    \/ \E u \in Users, p \in DOMAIN posts, n \in SlotNumbers : HandleMultipleClaim(u, p, n)
    \/ \E u \in Users, p \in DOMAIN posts, n \in SlotNumbers : HandleUnclaim(u, p, n)
    \/ \E adm \in Admin, target \in Users, confirm \in BOOLEAN :
          ResetSpecificUser(adm, target, confirm)
    \/ \E adm \in Admin, text \in CommandTexts : ResetAllClaims(adm, text)
    \/ HandleConfirmationText

\* a claim or multi post with the admin's reset commands
SpecReset == InitReset /\ [][NextReset]_vars

\* ---- C29: the total of an account and the prices of its records ----

RECURSIVE SumPrices(_)
\* sum(item["price"] for item in items)
SumPrices(items) ==
    IF items = << >> THEN 0 ELSE Head(items).price + SumPrices(Tail(items))

C30_ConfirmedResetClears ==
    last.op = "yes" =>
        /\ claimed_posts = EmptyDict /\ waitlists = EmptyDict
        /\ multiple_claims = EmptyDict /\ offer_posts = EmptyDict
        /\ auction_posts = EmptyDict
        /\ \A u \in DOMAIN user_claims :
              user_claims[u].items = << >> /\ user_claims[u].total = 0

\* what the code does instead: no message reaches the branch that resets
C30_NeverResets == last.op # "reset_all"

\* ---- C31: the reset of a user and the waitlists ----

\* the waitlists of the slots of the multi posts, keyed by post and slot
SlotWaitlists(mc) ==
    LET keys == {k \in {<<p, n>> : p \in DOMAIN mc, n \in SlotNumbers} :
                    Has(mc[k[1]], "waitlist") /\ Has(mc[k[1]].waitlist, k[2])}
    IN  [k \in keys |-> mc[k[1]].waitlist[k[2]]]

\* what a reset of u leaves of the lists before: none holds u, a list that
\* held only u is gone, a list that did not hold u is as it was
LeftWithout(before, after, u) ==
    /\ \A k \in DOMAIN after : ~InSeq(u, after[k]) /\ Has(before, k)
    /\ \A k \in DOMAIN before :
          IF InSeq(u, before[k])
          THEN (Len(before[k]) = 1 => ~Has(after, k))
               /\ (Len(before[k]) > 1 => Has(after, k) /\ after[k] # << >>)
          ELSE Has(after, k) /\ after[k] = before[k]

\* C31: a step that resets user u leaves u in no waitlist of a claim post or
\* of a slot of a multi post, deletes every waitlist that held only u, and
\* leaves the waitlists that did not hold u as they were.
C31_ResetLeavesWaitlists ==
    [][last'.op = "reset_user" =>
          /\ LeftWithout(waitlists, waitlists', last'.user)
          /\ LeftWithout(SlotWaitlists(multiple_claims), SlotWaitlists(multiple_claims'),
                         last'.user)]_vars
C31_ResetOfWaitlisted ==
    /\ last.op = "reset_user" /\ last.slot >= 1
    /\ \E other \in Users \ {last.user} :
          Has(waitlists, PostId) /\ waitlists[PostId] = <<other>>
C31_ResetOfSlotWaitlisted ==
    /\ last.op = "reset_user" /\ last.slot >= 1
    /\ Has(multiple_claims, PostId)
    /\ SlotWaitlists(multiple_claims) = EmptyDict

\* ---- C32: admin-only replies sent by others ----

\* the dictionaries and the ledger the admin-only replies act on
SalesState ==
    <<claimed_posts, waitlists, offer_posts, multiple_claims, user_claims, auction_posts,
      sheets_tracking, sheet, tasks, jobs>>

\* C32: a counter-offer or an acceptance "yours" sent by a sender that is
\* neither an admin user nor an admin channel changes no slot, offer,
\* counter-offer, auction, account or ledger state.
C32_NonAdminIgnored ==
    [][\A p \in DOMAIN posts :
          (Has(offer_posts, p) \/ Has(multiple_claims, p)) =>
             ((\/ HandleOfferAcceptance(FALSE, p)
               \/ \E a \in Amounts : HandleCounterOffer(FALSE, p, a)
               \/ \E n \in SlotNumbers : HandleMultipleOfferAcceptance(FALSE, p, n)
               \/ \E n \in SlotNumbers, a \in Amounts :
                     HandleMultipleCounterOffer(FALSE, p, n, a))
              => UNCHANGED SalesState)]_vars
\* an offer is pending and nothing forbids a counter-offer or an acceptance:
\* the state a refused reply of a non-admin leaves
C32_PendingOfferUntouched ==
    /\ last = NoEvent
    /\ \/ /\ Has(offer_posts, PostId)
          /\ DOMAIN offer_posts[PostId].offers # {}
          /\ DOMAIN offer_posts[PostId].counter_offers = {}
          /\ ~CounterBlocked(claimed_posts, PostId)
          /\ ENABLED HandleOfferAcceptance(FALSE, PostId)
       \/ /\ Has(multiple_claims, PostId)
          /\ DOMAIN SlotOffers(multiple_claims[PostId], 1) # {}
          /\ ~Has(multiple_claims[PostId], "counter_offers")
          /\ ENABLED HandleMultipleOfferAcceptance(FALSE, PostId, 1)

\* the same for "yours" and "rp not met" under an auction, ended or not
C32_NonAdminConfirmIgnored ==
    [][\A p \in DOMAIN posts :
          Has(auction_posts, p) =>
             ((\E w \in {"yours", "rp not met"} : HandleAuctionConfirmation(FALSE, p, w))
              => UNCHANGED SalesState)]_vars

\* ---- C33: the slots of a multi post ----

\* a multi post with two slots
MultiSlotPosts ==
    {[type |-> "multi", price |-> MaxAmount + 1, qty |-> MaxSlot, anti_snipe |-> FALSE,
      ends |-> 0]}

\* the users who send offers and takes under the two-slot post
Offerers == {"A"}

InitSlots ==
    /\ \E d \in MultiSlotPosts : posts = [p \in {PostId} |-> d]
    /\ service = "up"
    /\ InitCommon

NextSlots ==
    \/ \E p \in DOMAIN posts : HandleNewPost(p)
    \/ RunTask
    \/ \E u \in Users, p \in DOMAIN posts, n \in SlotNumbers : HandleMultipleClaim(u, p, n)
    \/ \E u \in Users, p \in DOMAIN posts, n \in SlotNumbers : HandleUnclaim(u, p, n)
    \/ \E u \in Offerers, p \in DOMAIN posts, n \in SlotNumbers : HandleTake(u, p, n)
    \/ \E u \in Offerers, p \in DOMAIN posts, n \in SlotNumbers, a \in {1} :
          HandleMultipleOffer(u, p, n, a)
    \/ \E adm \in Admin, p \in DOMAIN posts, n \in SlotNumbers, a \in {MaxAmount} :
          HandleMultipleCounterOffer(adm, p, n, a)
    \/ \E adm \in Admin, p \in DOMAIN posts, n \in SlotNumbers :
          HandleMultipleOfferAcceptance(adm, p, n)

\* a multi post with two slots: claims, unclaims, offers, counter-offers,
\* takes and acceptances
SpecSlots == InitSlots /\ [][NextSlots]_vars

\* what multiple_claims[p] holds about slot m: the owner by claim, the owner
\* by accepted offer, the waitlist, the offers, the counter-offers
SlotView(md, m) ==
    [claim |-> IF Has(md.claims, m) THEN md.claims[m] ELSE "-",
     accepted |-> IF Has(Field(md, "accepted_offers"), m) THEN md.accepted_offers[m] ELSE "-",
     waitlist |-> SlotWaitlist(md, m),
     offers |-> SlotOffers(md, m),
     counter_offers |-> IF Has(Field(md, "counter_offers"), m) THEN md.counter_offers[m]
                        ELSE EmptyDict]

\* C33: a step on slot n of a multi post leaves the owner, the waitlist, the
\* offers and the counter-offers of every other slot of the post as they were,
\* and a claimer is waitlisted on a slot only when that very slot is taken,
\* whatever other waitlists the claimer is on.
C33_SlotsIndependent ==
    [][\A p \in DOMAIN multiple_claims :
          Has(multiple_claims', p) =>
             LET changed == {m \in 1..MaxSlot :
                               SlotView(multiple_claims[p], m) # SlotView(multiple_claims'[p], m)}
             IN  /\ Cardinality(changed) <= 1
                 /\ last'.slot # 0 => changed \subseteq {last'.slot}
                 /\ (last'.op = "claim" /\ last'.result = "waitlisted")
                       => SlotTaken(multiple_claims[p], last'.slot)]_vars
C33_WaitlistedClaimsOpenSlot ==
    /\ Has(multiple_claims, PostId)
    /\ last.op = "claim" /\ last.result = "claimed" /\ last.slot = 2
    /\ InSeq(last.user, SlotWaitlist(multiple_claims[PostId], 1))
    /\ multiple_claims[PostId].claims[2] = last.user

\* ---- C34: slot numbers outside the declared quantity ----

\* C34: every operation on a multi post applies the same bound, the quantity
\* N the post declares: the bound the counter-offer and the acceptance read
\* from the post's entry is N, as is the bound the claim, the unclaim and the
\* offer read from the post's text.
C34_SameDeclaredBound ==
    \A p \in DOMAIN multiple_claims :
        StoredTotalQuantity(multiple_claims[p]) = TotalQuantity(p)

\* what the code keeps of it: a slot number outside 1..N changes no state,
\* whichever bound the operation applied and whatever it replied
C34_OutOfRangeNoChange ==
    [][\A p \in DOMAIN posts :
          (posts[p].type = "multi" /\ p \in ingested) =>
             \A n \in SlotNumbers \ (1..TotalQuantity(p)) :
                ((\/ \E u \in Users : HandleMultipleClaim(u, p, n)
                  \/ \E u \in Users : n # 0 /\ HandleUnclaim(u, p, n)
                  \/ \E u \in Users, a \in Amounts : HandleMultipleOffer(u, p, n, a)
                  \/ \E a \in Amounts : HandleMultipleCounterOffer(TRUE, p, n, a)
                  \/ HandleMultipleOfferAcceptance(TRUE, p, n))
                 => UNCHANGED SalesState)]_vars

\* ---- C35: the order of an auction's life ----

\* the clock stops after the latest minute an auction of a day can end at:
\* every extension needs a higher bid
LastMinute == DayMinutes + 1 + FirstExtension + MaxBid * NextExtension

\* nothing happens until the next job of the job queue is due
Leap ==
    /\ now < LastMinute
    /\ cur = Idle /\ tasks = << >> /\ ending = EmptyDict
    /\ jobs # {}
    /\ \A j \in jobs : j.at > now
    /\ \E j \in jobs : (\A k \in jobs : j.at <= k.at) /\ now' = j.at
    /\ UNCHANGED <<posts, awaiting_reset_confirmation, service, attempts, ending, ingested,
                   claimed_posts, waitlists, offer_posts, multiple_claims, user_claims,
                   auction_posts, sheets_tracking, sheet, tasks, jobs, cur, announced, last>>

\* the admin edits the post of an auction that has ended: the edited post is
\* handed to handle_new_post like a new one
HandleEditedEndedPost(p) ==
    /\ p \in ingested
    /\ Has(auction_posts, p) /\ ~auction_posts[p].active
    /\ ~Has(ending, p)
    /\ NewPost(p)

\* an auction post without a written end time: bidding lasts 24 hours
InitClock ==
    /\ \E d \in AuctionPosts : d.ends = 0 /\ posts = [p \in {PostId} |-> d]
    /\ service = "up"
    /\ InitCommon

\* one bidder raises the bid; the clock moves from job to job
NextDay ==
    \/ \E p \in DOMAIN posts : HandleNewPost(p)
    \/ RunTask
    \/ Leap
    \/ \E u \in Offerers, p \in DOMAIN posts, a \in BidAmounts : HandleAuctionBid(u, p, a)
    \/ \E p \in DOMAIN posts : EndAuctionStart(p)
    \/ \E p \in DOMAIN posts : EndAuctionFinish(p)
    \/ \E p \in DOMAIN posts : AuctionReminder(p)
    \/ \E adm \in Admin, p \in DOMAIN posts, w \in {"yours", "rp not met"} :
          HandleAuctionConfirmation(adm, p, w)

NextClock ==
    \/ NextDay
    \/ \E p \in DOMAIN posts : HandleEditedEndedPost(p)

SpecClock == InitClock /\ [][NextClock]_vars

\* C35: an auction is confirmed, won or reserve not met, only when it is no
\* longer active, and an auction that has become inactive never becomes
\* active again.
C35_LifecycleOrder ==
    [][\A p \in DOMAIN auction_posts :
          Has(auction_posts', p) =>
             /\ (auction_posts'[p].confirmed \in {"True", "False"}
                 /\ auction_posts'[p].confirmed # auction_posts[p].confirmed)
                   => ~auction_posts[p].active
             /\ ~auction_posts[p].active => ~auction_posts'[p].active]_vars

\* the part the code keeps: a confirmation changes an auction only after its
\* end, and while the auction is active it changes nothing
C35_ConfirmOnlyAfterEnd ==
    [][\A p \in DOMAIN auction_posts :
          Has(auction_posts', p) =>
             /\ (auction_posts'[p].confirmed \in {"True", "False"}
                 /\ auction_posts'[p].confirmed # auction_posts[p].confirmed)
                   => ~auction_posts[p].active
             /\ auction_posts[p].active =>
                   \A w \in {"yours", "rp not met"} :
                      HandleAuctionConfirmation(TRUE, p, w) => UNCHANGED SalesState]_vars

\* ---- C36: every auction ends ----

InitDay ==
    /\ \E d \in AuctionPosts : posts = [p \in {PostId} |-> d]
    /\ service = "up"
    /\ InitCommon

\* the job queue runs every job that is due, the event loop runs every task it
\* was given and every coroutine that waits for the network, and time passes
FairDay ==
    /\ WF_vars(Leap)
    /\ WF_vars(RunTask)
    /\ WF_vars(\E p \in DOMAIN posts : EndAuctionStart(p))
    /\ WF_vars(\E p \in DOMAIN posts : EndAuctionFinish(p))
    /\ WF_vars(\E p \in DOMAIN posts : AuctionReminder(p))

\* an auction, with or without written end time and anti-snipe, under a fair
\* job queue
SpecDay == InitDay /\ [][NextDay]_vars /\ FairDay

\* C36: every auction that is registered as active eventually is inactive,
\* whether bids extended it or not.
C36_EveryAuctionEnds ==
    \A p \in {PostId} :
        (Has(auction_posts, p) /\ auction_posts[p].active)
           ~> (Has(auction_posts, p) /\ ~auction_posts[p].active)
C36_EndedAfterExtensions ==
    /\ Has(auction_posts, PostId) /\ ~auction_posts[PostId].active
    /\ auction_posts[PostId].extended
    /\ auction_posts[PostId].end_time > DayMinutes + 1 + FirstExtension
C36_EndedWithoutExtension ==
    /\ Has(auction_posts, PostId) /\ ~auction_posts[PostId].active
    /\ ~auction_posts[PostId].anti_snipe
    /\ DOMAIN auction_posts[PostId].bids # {}

\* ---- C37: bids and the end time ----

\* end_time, display_end_time and extended of an auction
Timing(ad) == <<ad.end_time, ad.display_end_time, ad.extended>>

C37_EarlyBidWithAntiSnipe ==
    /\ last.op = "bid"
    /\ Has(auction_posts, PostId)
    /\ LET ad == auction_posts[PostId]
       IN  /\ ad.anti_snipe /\ ad.active
           /\ ad.end_time - now > SnipeWindow
           /\ Has(ad.bids, last.user)
           /\ Timing(ad) = <<AuctionEnds + 1, AuctionEnds, FALSE>>

\* ---- C38: the outbid notice of an offer ----

\* the offers on slot n of post p (n = 0: a claim post)
OffersOn(p, n) ==
    IF n = 0
    THEN (IF Has(offer_posts, p) THEN offer_posts[p].offers ELSE EmptyDict)
    ELSE (IF Has(multiple_claims, p) THEN SlotOffers(multiple_claims[p], n) ELSE EmptyDict)

\* the notice of a step that records an offer above the highest one: it goes
\* to a holder of the highest offer, never to the sender, and it goes out
\* when the sender is not such a holder
NoticeToOther(p, ev) ==
    LET before == OffersOn(p, ev.slot)
    IN  IF DOMAIN before = {} \/ ev.price <= MaxValue(before)
        THEN ev.notified = "-"
        ELSE /\ ev.notified # ev.user
             /\ ev.notified # "-" => ev.notified \in ArgMax(before)
             /\ ev.user \notin ArgMax(before) => ev.notified # "-"

\* C38: when an offer is recorded as the new highest on a claim post or on a
\* slot of a multi post, the outbid notice goes to the previous highest
\* offerer if and only if that is another user than the sender.
C38_OutbidNoticeIffOther ==
    [][(last'.op = "offer" /\ last'.result = "recorded"
        /\ (offer_posts' # offer_posts \/ multiple_claims' # multiple_claims))
          => \A p \in DOMAIN posts : NoticeToOther(p, last')]_vars

\* what the code keeps: on the slots of a multi post the notice goes to the
\* other user only
C38_MultiNoticeToOther ==
    [][(last'.op = "offer" /\ last'.result = "recorded" /\ last'.slot # 0
        /\ multiple_claims' # multiple_claims)
          => \A p \in DOMAIN posts : NoticeToOther(p, last')]_vars
C38_OwnRaiseOnSlot ==
    /\ last.op = "offer" /\ last.slot = 1 /\ last.price = MaxAmount /\ last.notified = "-"
    /\ Has(multiple_claims, PostId)
    /\ DOMAIN SlotOffers(multiple_claims[PostId], 1) = {last.user}

\* ---- C39: a claim at the list price and the pending offers ----

\* the offers on slot n of post p (n = 0: a claim post) in the dictionaries op
\* and mc
OffersIn(op, mc, p, n) ==
    IF n = 0
    THEN (IF Has(op, p) THEN op[p].offers ELSE EmptyDict)
    ELSE (IF Has(mc, p) THEN SlotOffers(mc[p], n) ELSE EmptyDict)
\* the counter-offers on slot n of post p
CounterOffersIn(op, mc, p, n) ==
    IF n = 0
    THEN (IF Has(op, p) THEN op[p].counter_offers ELSE EmptyDict)
    ELSE (IF Has(mc, p) /\ Has(Field(mc[p], "counter_offers"), n)
          THEN mc[p].counter_offers[n] ELSE EmptyDict)

\* C39: a step that claims a slot at the list price leaves no offer and no
\* counter-offer on that slot, on a claim post and on a multi post.
C39_ClaimDiscardsOffers ==
    [][(last'.op = "claim" /\ last'.result = "claimed" /\ user_claims' # user_claims)
          => \A p \in DOMAIN posts :
                /\ DOMAIN OffersIn(offer_posts', multiple_claims', p, last'.slot) = {}
                /\ DOMAIN CounterOffersIn(offer_posts', multiple_claims', p, last'.slot) = {}]_vars

\* the consequence the claim draws: a slot that is claimed on a multi post, or
\* a claim post with nothing left, has no counter-offer a take would sell and
\* no offer "yours" would sell
C39_NoSaleOnFullSlot ==
    /\ \A p \in DOMAIN offer_posts :
          OfferBlocked(claimed_posts, p) =>
             /\ DOMAIN offer_posts[p].offers = {}
             /\ DOMAIN offer_posts[p].counter_offers = {}
    /\ \A p \in DOMAIN multiple_claims, n \in 1..MaxSlot :
          Has(multiple_claims[p].claims, n) =>
             DOMAIN CounterOffersIn(offer_posts, multiple_claims, p, n) = {}

\* what follows in the code: the slot a user claimed is sold to a second user
\* who takes a counter-offer
C39_SlotSoldOnce ==
    \A p \in DOMAIN multiple_claims, n \in 1..MaxSlot :
        ~(Has(multiple_claims[p].claims, n)
          /\ Has(Field(multiple_claims[p], "accepted_offers"), n))

\* ---- C40: a take and the other posts ----

OtherPostId == "Q"

\* two claim posts in the channel
InitTwo ==
    /\ \E d \in ClaimPosts : posts = [p \in {PostId, OtherPostId} |-> d]
    /\ service = "up"
    /\ InitCommon

NextTwo ==
    \/ \E p \in DOMAIN posts : HandleNewPost(p)
    \/ RunTask
    \/ \E u \in Offerers, p \in DOMAIN posts : HandleOffer(u, p, 1)
    \/ \E adm \in Admin, p \in DOMAIN posts : HandleCounterOffer(adm, p, MaxAmount)
    \/ \E u \in Offerers, p \in DOMAIN posts : HandleTake(u, p, 0)

\* two claim posts: offers, counter-offers and takes
SpecTwo == InitTwo /\ [][NextTwo]_vars

\* what the dictionaries, the accounts and the pending ledger updates hold
\* about post q
PostState(cp, op, wl, uc, ts, q) ==
    <<{cp[x] : x \in DOMAIN cp \cap {q}},
      {op[x] : x \in DOMAIN op \cap {q}},
      {wl[x] : x \in DOMAIN wl \cap {q}},
      RecordsOf(uc, q),
      SelectSeq(ts, LAMBDA t : t.post = q)>>

\* C40: a "take" sent as a reply to post p changes nothing of any other post:
\* its slot, its offers and counter-offers, the records of it in the accounts
\* and the ledger updates for it are as before, whatever counter-offers the
\* sender holds on other posts.
C40_TakeAffectsOnlyRepliedPost ==
    [][\A u \in Users, p \in DOMAIN posts :
          (tasks' # tasks /\ HandleTake(u, p, 0)) =>
             \A q \in DOMAIN posts \ {p} :
                PostState(claimed_posts', offer_posts', waitlists', user_claims', tasks', q)
                   = PostState(claimed_posts, offer_posts, waitlists, user_claims, tasks, q)]_vars

=============================================================================
